---- MODULE Spec2Model ----
(***************************************************************************)
(* A model of the ncplib client (src/ncplib/client.py): the background     *)
(* reader that fans every received packet out to the registered waiters,   *)
(* recv_field with its auto-handlers, send with its id counter, the        *)
(* LINK handshake of connect, and close.                                   *)
(*                                                                         *)
(* Scheduling is asyncio's: one event loop, so a coroutine runs from the   *)
(* point where it is resumed to the next point where it suspends on a      *)
(* future that is not done, and each such stretch is one action.           *)
(***************************************************************************)
EXTENDS Integers, Sequences, FiniteSets, TLC

(* ------------------------------ bounds -------------------------------- *)

\* Packets the peer sends outside the lock-step handshake.
MaxPackets == 2
\* Calls of send() by the users of one client.
MaxSends == 1
\* Calls of recv_field() by the users of one client.
MaxCalls == 2
\* Calls of Task.cancel() on user tasks.
MaxCancels == 1
\* Calls of close() on one client.
MaxClose == 2
\* Calls of Server.close() on one server.
MaxServerClose == 1
\* What the users and the peer do to one open client, all together: calls of
\* recv_field, send, cancel, close and wait_closed, and packets received.
MaxEvents == 3

(* ------------------------------ values -------------------------------- *)

\* Python's None, where a field id is expected (ids are drawn from 1 up).
None == -1

\* The user tasks that call recv_field/send, and the task running connect().
Callers == {"c1", "c2"}
ConnectTask == "connect"
Tasks == Callers \cup {ConnectTask}

\* client.py:22, the last four bytes of the MAC address.
CLIENT_ID == "mac4"

NoParams == [n \in {} |-> 0]

Field(name, id, params) == [name |-> name, id |-> id, params |-> params]
Packet(type, fields) == [type |-> type, fields |-> fields]

\* dict.get(key, None) is not None
Has(params, key) == key \in DOMAIN params

\* dict.get(key, None), None written as the string "None" for a message and
\* as the number None for a code.
GetStr(params, key) == IF Has(params, key) THEN params[key] ELSE "None"
GetInt(params, key) == IF Has(params, key) THEN params[key] ELSE None

(* ------------------------------ errors -------------------------------- *)

\* CommandMixin.__init__: the five values are passed on to the base class
\* as its args and kept as attributes.
CommandMixin(cls, packet_type, field_name, field_id, message, code) ==
    [cls |-> cls,
     args |-> <<packet_type, field_name, field_id, message, code>>,
     packet_type |-> packet_type, field_name |-> field_name,
     field_id |-> field_id, message |-> message, code |-> code]

\* class CommandError(Exception): pass -- no mixin, so the five values given
\* to the constructor are its args and no attribute is set.
CommandError(packet_type, field_name, field_id, message, code) ==
    [cls |-> "CommandError",
     args |-> <<packet_type, field_name, field_id, message, code>>]

\* class CommandWarning(CommandMixin, Warning)
CommandWarning(packet_type, field_name, field_id, message, code) ==
    CommandMixin("CommandWarning", packet_type, field_name, field_id, message, code)

\* class DecodeError(CommandMixin, Exception), raised by the decoder with one
\* argument: CommandMixin.__init__ wants five, so building it raises TypeError.
DecodeError(msg) == [cls |-> "TypeError", args |-> <<"__init__", msg>>]

ConnectionClosed == [cls |-> "ConnectionClosed", args |-> <<>>]

(* --------------------------- auto-handlers ---------------------------- *)

\* Client._handle_erro: raises, or returns None.
_handle_erro(packet_type, field) ==
    LET error_message == GetStr(field.params, "ERRO")
        error_code == GetInt(field.params, "ERRC")
    IN  IF error_message # "None" \/ error_code # None
        THEN [raised |-> TRUE,
              exc |-> CommandError(packet_type, field.name, field.id,
                                   error_message, error_code)]
        ELSE [raised |-> FALSE]

\* Client._handle_warn, a faulty variant: the field
\* named WARN is skipped only when it carries a warning.
_handle_warn_TriggeredSkip(packet_type, field) ==
    LET warning_message == GetStr(field.params, "WARN")
        warning_code == GetInt(field.params, "WARC")
        hit == warning_message # "None" \/ warning_code # None
    IN  [warnings |-> IF hit
                      THEN <<CommandWarning(packet_type, field.name, field.id,
                                            warning_message, warning_code)>>
                      ELSE <<>>,
         skip |-> hit /\ field.name = "WARN"]

\* Client._handle_warn: the warnings it emits, and whether it returns True.
_handle_warn(packet_type, field) ==
    LET warning_message == GetStr(field.params, "WARN")
        warning_code == GetInt(field.params, "WARC")
    IN  [warnings |-> IF warning_message # "None" \/ warning_code # None
                      THEN <<CommandWarning(packet_type, field.name, field.id,
                                            warning_message, warning_code)>>
                      ELSE <<>>,
         skip |-> field.name = "WARN"]

\* Client._handle_ackn
_handle_ackn(packet_type, field) == Has(field.params, "ACKN")

\* The test of recv_field's loop over packet.fields, a faulty variant: the id
\* is not compared.
FieldMatches_AnyId(field, field_name, field_id) == field.name = field_name

\* The test of recv_field's loop over packet.fields.
FieldMatches(field, field_name, field_id) ==
    field.name = field_name /\ (field_id = None \/ field.id = field_id)

\* recv_field's loop over the fields of one packet of the awaited type, from
\* field i on: the first field that matches and survives the filters is
\* returned, a CommandError ends the call, and the warnings emitted on the
\* way are collected.
RECURSIVE ScanFields(_, _, _, _, _, _, _)
ScanFields(flags, fields, i, packet_type, field_name, field_id, warns) ==
    IF i > Len(fields)
    THEN [kind |-> "nomatch", warns |-> warns]
    ELSE LET field == fields[i]
             next(w) == ScanFields(flags, fields, i + 1, packet_type,
                                   field_name, field_id, w)
         IN  IF ~FieldMatches(field, field_name, field_id)
             THEN next(warns)
             ELSE LET e == IF flags.auto_erro
                           THEN _handle_erro(packet_type, field)
                           ELSE [raised |-> FALSE]
                      w == IF flags.auto_warn
                           THEN _handle_warn(packet_type, field)
                           ELSE [warnings |-> <<>>, skip |-> FALSE]
                  IN  IF e.raised
                      THEN [kind |-> "raise", val |-> e.exc, warns |-> warns]
                      ELSE IF w.skip
                      THEN next(warns \o w.warnings)
                      ELSE IF flags.auto_ackn /\ _handle_ackn(packet_type, field)
                      THEN next(warns \o w.warnings)
                      ELSE [kind |-> "return", val |-> field.params,
                            warns |-> warns \o w.warnings]

\* What one packet does to a recv_field call: `if packet.type == packet_type`.
Examine(flags, packet, call) ==
    IF packet.type = call.packet_type
    THEN ScanFields(flags, packet.fields, 1, call.packet_type,
                    call.field_name, call.field_id, <<>>)
    ELSE [kind |-> "nomatch", warns |-> <<>>]


(* ------------------------------- state -------------------------------- *)

VARIABLES
    cfg,          \* Client.__init__'s auto_auth, auto_erro, auto_warn, auto_ackn
    peer,         \* how the other end behaves: "lockstep" or "free"
    client,       \* "init", "connecting", "open" (connect returned) or "failed"
    reader,       \* the _background_reader task: "none", "running", "cancelling", "done"
    writerClosed, \* self._writer.close() was called
    closeCalls,   \* calls of close() so far
    id_gen,       \* self._id_gen
    sent,         \* the packets written to the socket, in order
    handle,       \* per user task, the ClientResponse its last send returned
    auth,         \* the field _handle_auth is waiting for, or "none"
    inbox,        \* the frames in the socket's receive buffer, in order
    srvStep,      \* the lock-step server's position in the handshake
    peerSent,     \* packets sent by the peer outside the lock-step handshake
    waiters,      \* self._waiters, a set of futures
    fut,          \* the state of each future
    pc,           \* per task: "idle", "waiting" (suspended in recv_field), "done"
    call,         \* per task, the arguments of its recv_field call
    cur,          \* per task, which future its _wait_for_packet created last
    cancelReq,    \* per task, Task.cancel() was called and not yet delivered
    calls,        \* the recv_field calls the user tasks have started
    cancels,      \* the Task.cancel() calls on user tasks
    result,       \* per task, how its last recv_field call ended
    warned,       \* per task, the warnings its last examination of a packet emitted
    hist,         \* per task, the history of its call that the properties read
    ghost,        \* history: the packets read so far and the last of them,
                  \* whether a read failed and whether one followed, the ids
                  \* drawn, and the steps of the handshake
    wait_closed,  \* the call of Client.wait_closed: where it is, and those of
                  \* its active_futures that are not done yet
    \* the server (server.py)
    _auto_auth,   \* Server._auto_auth
    _server,      \* the listener asyncio.start_server returned: "listening" or "closed"
    _handlers,    \* Server._handlers, the set of per-connection tasks
    task,         \* per accepted socket, the task running _run_client_connected
    connection,   \* per accepted socket, the Connection the task has built
    server_closes,      \* calls of Server.close so far
    server_wait_closed, \* the call of Server.wait_closed: where it is
    \* the packet codec (packets.py)
    fields_in,    \* the fields given to encode_packet
    buf,          \* the bytes of one packet
    embedded,     \* the offsets in the body at which a footer was embedded
    decoded,      \* what decoding buf gave
    limit,        \* the field_limit decode_fields was given with buf as the body
    loop          \* where decode_fields is in its loops, and what it holds

clientVars == <<cfg, peer, client, reader, writerClosed, closeCalls, id_gen,
                sent, handle, auth, inbox, srvStep, peerSent, waiters, fut, pc,
                call, cur, cancelReq, calls, cancels, result, warned, hist, ghost,
                wait_closed>>
serverVars == <<_auto_auth, _server, _handlers, task, connection, server_closes,
                server_wait_closed>>
codecVars == <<fields_in, buf, embedded, decoded, limit, loop>>
vars == <<clientVars, serverVars, codecVars>>

WaiterIds == Tasks \X {0, 1}

\* The users and the peer may still act on the open client.
Budget ==
    client = "open" =>
        calls + cancels + closeCalls + peerSent
            + (IF wait_closed.pc = "idle" THEN 0 ELSE 1)
            + Cardinality({k \in 1..Len(sent) : sent[k].type # "LINK"}) < MaxEvents

NoPacket == Packet("none", <<>>)
NoCall == [packet_type |-> "none", field_name |-> "none", field_id |-> None]
NoHandle == [packet_type |-> "none", lookup |-> NoParams, sendIdx |-> 0]
NoResult == [kind |-> "none"]
\* The history of one recv_field call: the send whose response it was called
\* on (0: none), whether it started after close(), whether it was suspended
\* when close() was called, the packet it examined when it was last resumed
\* and the number of the read that delivered it, the last read during which
\* it was suspended on a waiter that was not done, and whether the reader
\* has read an acknowledgement for it (1) and then a plain reply (2).
NoHist == [sendIdx |-> 0, afterClose |-> FALSE, atClose |-> FALSE,
           seen |-> NoPacket, seenSeq |-> 0, dueSeq |-> 0, ack |-> 0]

\* Future.done()
Done(f) == f.st \in {"result", "exception", "cancelled"}

\* Client._active_waiters, a faulty variant: every waiter, done or not.
_active_waiters_All(ws, fs) == ws

\* Client._active_waiters, a faulty variant: only one of the waiters that are not done.
_active_waiters_OnlyOne(ws, fs) ==
    LET active == {w \in ws : ~Done(fs[w])}
    IN  IF active = {} THEN {} ELSE {CHOOSE w \in active : TRUE}

\* Client._active_waiters: filterfalse(methodcaller("done"), self._waiters)
_active_waiters(ws, fs) == {w \in ws : ~Done(fs[w])}

\* Client._gen_id, a faulty variant: the counter is returned without being incremented.
_gen_id_Stuck(n) == IF n = 0 THEN 1 ELSE n

\* Client._gen_id: the new value of self._id_gen, which is also what it returns.
_gen_id(n) == n + 1

\* The ids that k successive calls of _gen_id return, starting from counter n.
RECURSIVE DrawIds(_, _)
DrawIds(n, k) == IF k = 0 THEN <<>> ELSE <<_gen_id(n)>> \o DrawIds(_gen_id(n), k - 1)

\* Client.send: the fields get their ids in dict order, then the packet gets
\* its own; the packet written, the counter afterwards, and the lookup of the
\* ClientResponse.
SendPacket(n, packet_type, names, params) ==
    LET ids == DrawIds(n, Len(names) + 1)
        fields == [i \in 1..Len(names) |-> Field(names[i], ids[i], params[i])]
    IN  [packet |-> [type |-> packet_type, id |-> ids[Len(names) + 1],
                     info |-> CLIENT_ID, fields |-> fields],
         id_gen |-> ids[Len(ids)],
         drawn |-> ids,
         lookup |-> [nm \in {names[i] : i \in 1..Len(names)} |->
                        (CHOOSE f \in {fields[i] : i \in 1..Len(names)} : f.name = nm).id]]

\* streams.read_packet on one frame of the receive buffer: the packet, or the
\* exception decode_packet_cps raises on a frame with a bad magic header.
BadFrame == Packet("BAD!", <<>>)
read_packet(frame) ==
    IF frame = BadFrame
    THEN [ok |-> FALSE, exc |-> DecodeError("Invalid packet header")]
    ELSE [ok |-> TRUE, packet |-> frame]

(* ------------------------------ the peer ------------------------------ *)

\* The ids of the fields named `name` of the requests the users sent.
RequestIds(name) ==
    UNION {{sent[i].fields[j].id :
               j \in {k \in 1..Len(sent[i].fields) : sent[i].fields[k].name = name}} :
           i \in {k \in 1..Len(sent) : sent[k].type # "LINK"}}

\* The packets a peer sends to an open client: unsolicited ones, whose fields
\* have id 0 (no request has it), and the plain reply to a request field.
UserPackets ==
    { Packet("X", <<Field("CMD1", 0, [RSLT |-> "ok"])>>),
      Packet("X", <<Field("CMD1", 0, [ACKN |-> 1])>>),
      Packet("X", <<Field("CMD1", 0, [ACKN |-> 1]), Field("CMD1", 0, [RSLT |-> "ok"])>>),
      Packet("X", <<Field("CMD1", 0, [RSLT |-> "ok"]), Field("CMD1", 0, [RSLT |-> "two"])>>),
      Packet("X", <<Field("CMD1", 0, [ERRO |-> "bad", ERRC |-> 400])>>),
      Packet("X", <<Field("CMD1", 0, [WARN |-> "hot", RSLT |-> "ok"])>>),
      Packet("X", <<Field("WARN", 0, [WARN |-> "hot"])>>),
      Packet("X", <<Field("WARN", 0, [RSLT |-> "ok"])>>),
      Packet("Y", <<Field("CMD1", 0, [RSLT |-> "ok"])>>) }
    \cup { Packet("X", <<Field("CMD1", i, [RSLT |-> "ok"])>>) : i \in RequestIds("CMD1") }
    \cup { Packet("X", <<Field("WARN", i, [RSLT |-> "ok"])>>) : i \in RequestIds("WARN") }

Link(name) == Packet("LINK", <<Field(name, 0, NoParams)>>)

\* The packets a peer that does not follow the script sends during the handshake.
LinkPackets ==
    { Link("HELO"), Link("SCAR"), Link("SCON"),
      Packet("LINK", <<Field("HELO", 0, [ERRO |-> "denied", ERRC |-> 403])>>) }

\* What a user task asks for: recv_field(packet_type, field_name), and
\* send(packet_type, {name: {} ...}).
RecvTypes == {"X"}
RecvNames == {"CMD1", "WARN"}
SendNames == {<<"CMD1">>, <<"CMD1", "WARN">>}

\* A reply that every combination of the auto-handlers returns to a call: the
\* packet is of the awaited type and each of its fields that matches the call
\* carries no ERRO, ERRC, WARN, WARC or ACKN and is not named WARN.
PlainField(field) ==
    /\ field.name # "WARN"
    /\ \A k \in {"ERRO", "ERRC", "WARN", "WARC", "ACKN"} : ~Has(field.params, k)
Matching(packet, cl) ==
    IF packet.type = cl.packet_type
    THEN {j \in 1..Len(packet.fields) :
             /\ packet.fields[j].name = cl.field_name
             /\ cl.field_id \in {None, packet.fields[j].id}}
    ELSE {}
PlainReply(packet, cl) ==
    /\ Matching(packet, cl) # {}
    /\ \A j \in Matching(packet, cl) : PlainField(packet.fields[j])
AcknReply(packet, cl) ==
    /\ Matching(packet, cl) # {}
    /\ \A j \in Matching(packet, cl) :
          /\ Has(packet.fields[j].params, "ACKN")
          /\ ~Has(packet.fields[j].params, "ERRO")
          /\ ~Has(packet.fields[j].params, "ERRC")

UserSends == Cardinality({k \in 1..Len(sent) : sent[k].type # "LINK"})

(* -------------------------------- Init -------------------------------- *)

\* The sockets one server accepts, in this order.
Conns == {1, 2}

\* No task was created for the socket yet, and no Connection built.
NoTask == [pc |-> "none", must_cancel |-> FALSE, outcome |-> "none"]
NoConnection == [built |-> FALSE, is_closing |-> FALSE, close_calls |-> 0,
                 wait_closed |-> "none", log |-> <<>>]

\* A server that was started and has accepted nothing: Server.__init__ and
\* Server._connect.
ServerStarted ==
    /\ _server = "listening"
    /\ _handlers = {}
    /\ task = [k \in Conns |-> NoTask]
    /\ connection = [k \in Conns |-> NoConnection]
    /\ server_closes = 0
    /\ server_wait_closed = [pc |-> "idle", fs |-> {}]

\* decode_fields is not running.
NoLoop ==
    [pc |-> "idle", offset |-> 0, param_limit |-> 0, field_name |-> <<>>,
     field_id |-> 0, params |-> <<>>, fields |-> <<>>, warnings |-> <<>>,
     error |-> "none"]

\* The codec has been given nothing.
CodecIdle ==
    /\ fields_in = <<>>
    /\ buf = <<>>
    /\ embedded = <<>>
    /\ decoded = [kind |-> "none"]
    /\ limit = 0
    /\ loop = NoLoop

\* Client.__init__
ClientCreated ==
    /\ client = "init"
    /\ reader = "none"
    /\ writerClosed = FALSE
    /\ closeCalls = 0
    /\ id_gen = 0
    /\ sent = <<>>
    /\ handle = [c \in Callers |-> NoHandle]
    /\ auth = "none"
    /\ inbox = <<>>
    /\ srvStep = 0
    /\ peerSent = 0
    /\ waiters = {}
    /\ fut = [w \in WaiterIds |-> [st |-> "none"]]
    /\ pc = [t \in Tasks |-> "idle"]
    /\ call = [t \in Tasks |-> NoCall]
    /\ cur = [t \in Tasks |-> 0]
    /\ cancelReq = [t \in Tasks |-> FALSE]
    /\ calls = 0
    /\ cancels = 0
    /\ result = [t \in Tasks |-> NoResult]
    /\ warned = [t \in Tasks |-> <<>>]
    /\ hist = [t \in Tasks |-> NoHist]
    /\ ghost = [reads |-> 0, last |-> NoPacket, readFailed |-> FALSE,
                readAfterFail |-> FALSE, drawn |-> <<>>, events |-> <<>>]
    /\ wait_closed = [pc |-> "idle", active_futures |-> {}]

\* The client after Client.__init__, with any combination of the flags.
Init ==
    /\ cfg \in [auto_auth : BOOLEAN, auto_erro : BOOLEAN,
                auto_warn : BOOLEAN, auto_ackn : BOOLEAN]
    /\ peer \in {"lockstep", "free"}
    /\ peer = "lockstep" => cfg.auto_auth
    /\ ClientCreated
    /\ _auto_auth = TRUE
    /\ ServerStarted
    /\ CodecIdle


(* ------------------------------ helpers ------------------------------- *)

Waiter(t) == <<t, cur[t]>>
NextWaiter(t) == <<t, 1 - cur[t]>>

\* _wait_for_packet's finally, a faulty variant: the waiter stays in the set.
Leave_Keeps(ws, w) == ws

\* _wait_for_packet's finally: self._waiters.remove(waiter)
Leave(ws, w) == ws \ {w}

\* _wait_for_packet up to its yield: a new Future, added to self._waiters.
Enter(ws, w) == ws \cup {w}

Pending == [st |-> "pending"]
Unused == [st |-> "none"]

\* Task t starts a recv_field call and suspends on a fresh waiter.
StartCall(t, cl, h) ==
    /\ waiters' = Enter(waiters, NextWaiter(t))
    /\ fut' = [fut EXCEPT ![NextWaiter(t)] = Pending]
    /\ cur' = [cur EXCEPT ![t] = 1 - cur[t]]
    /\ pc' = [pc EXCEPT ![t] = "waiting"]
    /\ call' = [call EXCEPT ![t] = cl]
    /\ result' = [result EXCEPT ![t] = NoResult]
    /\ warned' = [warned EXCEPT ![t] = <<>>]
    /\ hist' = [hist EXCEPT ![t] = h]

\* Task t leaves _wait_for_packet with a packet that holds nothing for it and
\* goes round recv_field's `while True` to wait on a fresh waiter.
WaitAgain(t) ==
    /\ waiters' = Enter(Leave(waiters, Waiter(t)), NextWaiter(t))
    /\ fut' = [fut EXCEPT ![Waiter(t)] = Unused, ![NextWaiter(t)] = Pending]
    /\ cur' = [cur EXCEPT ![t] = 1 - cur[t]]

\* Task t leaves _wait_for_packet and recv_field for good.
Finish(t) ==
    /\ waiters' = Leave(waiters, Waiter(t))
    /\ fut' = [fut EXCEPT ![Waiter(t)] = Unused]
    /\ cur' = cur

\* How the resumed task t leaves `yield from waiter`.
Outcome(t) ==
    LET f == fut[Waiter(t)]
    IN  IF cancelReq[t] \/ f.st = "cancelled"
        THEN [kind |-> "cancelled", warns |-> <<>>]
        ELSE IF f.st = "exception"
        THEN [kind |-> "raise", val |-> f.val, warns |-> <<>>]
        ELSE Examine(cfg, f.val, call[t])

Seen(t) ==
    LET f == fut[Waiter(t)]
    IN  IF f.st = "result" /\ ~cancelReq[t]
        THEN [hist[t] EXCEPT !.seen = f.val, !.seenSeq = f.seq]
        ELSE [hist[t] EXCEPT !.seen = NoPacket, !.seenSeq = 0]

\* asyncio.wait's callbacks: the futures that are done after this step are
\* no longer waited for.
StillActive ==
    wait_closed' = [wait_closed EXCEPT
                      !.active_futures = {w \in @ : ~Done(fut'[w])}]

(* ------------------------------ the client ---------------------------- *)

\* connect() -> Client._connect: the connection is open, the reader is
\* spawned, and with auto_auth _handle_auth runs up to its first yield.
Connect ==
    /\ client = "init"
    /\ reader' = "running"
    /\ IF cfg.auto_auth
       THEN /\ client' = "connecting"
            /\ auth' = "HELO"
            /\ StartCall(ConnectTask,
                         [packet_type |-> "LINK", field_name |-> "HELO",
                          field_id |-> None], NoHist)
            /\ ghost' = ghost
       ELSE /\ client' = "open"
            /\ ghost' = [ghost EXCEPT !.events = Append(@, "return")]
            /\ UNCHANGED <<auth, waiters, fut, cur, pc, call, result, warned, hist, cancels>>
    /\ UNCHANGED <<cfg, peer, writerClosed, closeCalls, id_gen, sent, handle,
                   inbox, srvStep, peerSent, cancelReq, calls, cancels, wait_closed,
                   serverVars, codecVars>>

\* The field _handle_auth sends once it has received `got`, and the field it
\* then waits for.
\* A faulty variant that answers every step with the auth request.
AuthReply_CareFirst(got) == "CARE"

AuthReply(got) == IF got = "HELO" THEN "CCRE" ELSE "CARE"
AuthParam(got) == IF got = "HELO" THEN [CIW |-> CLIENT_ID] ELSE [CAR |-> CLIENT_ID]
AuthNext(got) == IF got = "HELO" THEN "SCAR" ELSE "SCON"

\* The task running connect() is resumed inside _handle_auth's recv_field.
HandleAuth ==
    /\ client = "connecting"
    /\ pc[ConnectTask] = "waiting"
    /\ Done(fut[Waiter(ConnectTask)])
    /\ LET t == ConnectTask
           o == Outcome(t)
       IN  /\ warned' = [warned EXCEPT ![t] = o.warns]
           /\ CASE o.kind = "nomatch" ->
                    /\ WaitAgain(t)
                    /\ hist' = [hist EXCEPT ![t] = Seen(t)]
                    /\ UNCHANGED <<client, auth, id_gen, sent, pc, call, result, ghost, cancels>>
                [] o.kind = "return" /\ auth = "SCON" ->
                    /\ Finish(t)
                    /\ hist' = [hist EXCEPT ![t] = Seen(t)]
                    /\ client' = "open"
                    /\ auth' = "none"
                    /\ pc' = [pc EXCEPT ![t] = "done"]
                    /\ result' = [result EXCEPT ![t] = [kind |-> "params", val |-> o.val]]
                    /\ ghost' = [ghost EXCEPT !.events = @ \o <<"SCON", "return">>]
                    /\ UNCHANGED <<id_gen, sent, call, cancels>>
                [] o.kind = "return" /\ auth # "SCON" ->
                    LET s == SendPacket(id_gen, "LINK", <<AuthReply(auth)>>,
                                        <<AuthParam(auth)>>)
                    IN  /\ WaitAgain(t)
                        /\ id_gen' = s.id_gen
                        /\ sent' = Append(sent, s.packet)
                        /\ auth' = AuthNext(auth)
                        /\ call' = [call EXCEPT ![t].field_name = AuthNext(auth)]
                        /\ hist' = [hist EXCEPT ![t] = NoHist]
                        /\ ghost' = [ghost EXCEPT
                                        !.events = @ \o <<auth, AuthReply(auth)>>,
                                        !.drawn = @ \o s.drawn]
                        /\ UNCHANGED <<client, pc, result, cancels>>
                [] OTHER ->
                    /\ Finish(t)
                    /\ hist' = [hist EXCEPT ![t] = Seen(t)]
                    /\ client' = "failed"
                    /\ pc' = [pc EXCEPT ![t] = "done"]
                    /\ result' = [result EXCEPT ![t] = [kind |-> "exception", val |-> o.val]]
                    /\ UNCHANGED <<auth, id_gen, sent, call, ghost, cancels>>
    /\ UNCHANGED <<cfg, peer, reader, writerClosed, closeCalls, handle, inbox,
                   srvStep, peerSent, cancelReq, calls, cancels, wait_closed,
                   serverVars, codecVars>>


\* The frames of a peer that follows no script: during the handshake a LINK
\* packet or a malformed frame; to an open client, a packet of the pool or a
\* malformed frame.
PeerFrames ==
    IF client = "connecting" THEN LinkPackets \cup {BadFrame}
    ELSE UserPackets \cup {BadFrame}

\* The frame the reader's next read_packet gets: the head of the receive
\* buffer, or, from a peer that follows no script, a frame that arrives while
\* the reader waits in read_packet. Nothing arrives once the client has
\* closed the socket.
Arrives(frame) ==
    IF inbox # <<>> THEN frame = Head(inbox)
    ELSE /\ peer = "free"
         /\ peerSent < MaxPackets
         /\ closeCalls = 0
         /\ frame \in PeerFrames

\* One round of Client._run_reader's loop: read_packet returns a packet, which
\* is set as the result of every waiter that is not done, or raises, and the
\* exception is set on every waiter that is not done; the loop goes on in
\* both cases.
RunReader(frame) ==
    /\ reader = "running"
    /\ Arrives(frame)
    /\ inbox = <<>> => Budget
    /\ peerSent' = IF inbox # <<>> THEN peerSent ELSE peerSent + 1
    /\ LET r == read_packet(frame)
           active == _active_waiters(waiters, fut)
           seq == ghost.reads + 1
           inCall == {t \in Tasks : pc[t] = "waiting"}
       IN  /\ inbox' = IF inbox # <<>> THEN Tail(inbox) ELSE inbox
           /\ IF r.ok
              THEN /\ fut' = [w \in WaiterIds |->
                                IF w \in active
                                THEN [st |-> "result", val |-> r.packet, seq |-> seq]
                                ELSE fut[w]]
                   /\ hist' = [t \in Tasks |->
                                IF t \notin inCall THEN hist[t]
                                ELSE [hist[t] EXCEPT
                                        !.dueSeq = IF fut[Waiter(t)].st = "pending"
                                                   THEN seq ELSE @,
                                        !.ack = IF @ >= 1 /\ PlainReply(r.packet, call[t])
                                                THEN 2
                                                ELSE IF @ = 0 /\ AcknReply(r.packet, call[t])
                                                THEN 1 ELSE @]]
                   /\ ghost' = [ghost EXCEPT
                                   !.reads = seq,
                                   !.last = r.packet,
                                   !.readAfterFail = @ \/ ghost.readFailed]
              ELSE /\ fut' = [w \in WaiterIds |->
                                IF w \in active
                                THEN [st |-> "exception", val |-> r.exc]
                                ELSE fut[w]]
                   /\ hist' = hist
                   /\ ghost' = [ghost EXCEPT
                                   !.readFailed = TRUE,
                                   !.readAfterFail = @ \/ ghost.readFailed]
    /\ UNCHANGED <<cfg, peer, client, reader, writerClosed, closeCalls, id_gen,
                   sent, handle, auth, srvStep, waiters, pc, call, cur,
                   cancelReq, calls, cancels, result, warned,
                   serverVars, codecVars>>
    /\ StillActive

\* The cancelled reader task is resumed with CancelledError, which
\* _run_reader re-raises: the task is done.
ReaderCancelled ==
    /\ reader = "cancelling"
    /\ reader' = "done"
    /\ UNCHANGED <<cfg, peer, client, writerClosed, closeCalls, id_gen, sent,
                   handle, auth, inbox, srvStep, peerSent, waiters, fut, pc, call,
                   cur, cancelReq, calls, cancels, result, warned, hist, ghost, wait_closed,
                   serverVars, codecVars>>

\* Client.close, called by a user of the client that connect returned.
Close ==
    /\ client = "open"
    /\ closeCalls < MaxClose
    /\ Budget
    /\ reader' = IF reader = "running" THEN "cancelling" ELSE reader
    /\ fut' = [w \in WaiterIds |->
                 IF w \in _active_waiters(waiters, fut)
                 THEN [st |-> "exception", val |-> ConnectionClosed]
                 ELSE fut[w]]
    /\ writerClosed' = TRUE
    /\ closeCalls' = closeCalls + 1
    /\ hist' = [t \in Tasks |->
                  IF pc[t] = "waiting" /\ closeCalls = 0
                  THEN [hist[t] EXCEPT !.atClose = TRUE]
                  ELSE hist[t]]
    /\ UNCHANGED <<cfg, peer, client, id_gen, sent, handle, auth, inbox, srvStep,
                   peerSent, waiters, pc, call, cur, cancelReq, calls, cancels, result,
                   warned, ghost,
                   serverVars, codecVars>>
    /\ StillActive

\* A user task calls Client.recv_field(packet_type, field_name) and suspends
\* in _wait_for_packet.
RecvField(c, packet_type, field_name) ==
    /\ client = "open"
    /\ pc[c] # "waiting"
    /\ calls < MaxCalls
    /\ Budget
    /\ calls' = calls + 1
    /\ StartCall(c, [packet_type |-> packet_type, field_name |-> field_name,
                     field_id |-> None],
                 [NoHist EXCEPT !.afterClose = closeCalls > 0])
    /\ UNCHANGED <<cfg, peer, client, reader, writerClosed, closeCalls, id_gen,
                   sent, handle, auth, inbox, srvStep, peerSent, cancelReq, ghost, cancels, wait_closed,
                   serverVars, codecVars>>

\* A user task calls ClientResponse.recv_field(field_name) on the response
\* its last send returned.
ResponseRecvField(c, field_name) ==
    /\ client = "open"
    /\ pc[c] # "waiting"
    /\ calls < MaxCalls
    /\ Budget
    /\ handle[c] # NoHandle
    /\ field_name \in DOMAIN handle[c].lookup
    /\ calls' = calls + 1
    /\ StartCall(c, [packet_type |-> handle[c].packet_type,
                     field_name |-> field_name,
                     field_id |-> handle[c].lookup[field_name]],
                 [NoHist EXCEPT !.afterClose = closeCalls > 0,
                                !.sendIdx = handle[c].sendIdx])
    /\ UNCHANGED <<cfg, peer, client, reader, writerClosed, closeCalls, id_gen,
                   sent, handle, auth, inbox, srvStep, peerSent, cancelReq, ghost, cancels, wait_closed,
                   serverVars, codecVars>>

\* A user task calls Client.send(packet_type, {name: {}, ...}).
Send(c, packet_type, names) ==
    /\ client = "open"
    /\ pc[c] # "waiting"
    /\ UserSends < MaxSends
    /\ Budget
    /\ LET s == SendPacket(id_gen, packet_type, names,
                           [i \in 1..Len(names) |-> NoParams])
       IN  /\ id_gen' = s.id_gen
           /\ sent' = Append(sent, s.packet)
           /\ handle' = [handle EXCEPT ![c] =
                            [packet_type |-> packet_type, lookup |-> s.lookup,
                             sendIdx |-> Len(sent) + 1]]
           /\ ghost' = [ghost EXCEPT !.drawn = @ \o s.drawn]
    /\ UNCHANGED <<cfg, peer, client, reader, writerClosed, closeCalls, auth,
                   inbox, srvStep, peerSent, waiters, fut, pc, call, cur,
                   cancelReq, calls, cancels, result, warned, hist, wait_closed,
                   serverVars, codecVars>>

\* A user task suspended in recv_field is resumed: its waiter is done.
Resume(c) ==
    /\ pc[c] = "waiting"
    /\ Done(fut[Waiter(c)])
    /\ LET o == Outcome(c)
       IN  /\ warned' = [warned EXCEPT ![c] = o.warns]
           /\ hist' = [hist EXCEPT ![c] = Seen(c)]
           /\ cancelReq' = [cancelReq EXCEPT ![c] = FALSE]
           /\ CASE o.kind = "nomatch" ->
                    /\ WaitAgain(c)
                    /\ UNCHANGED <<pc, result, cancels>>
                [] o.kind = "return" ->
                    /\ Finish(c)
                    /\ pc' = [pc EXCEPT ![c] = "done"]
                    /\ result' = [result EXCEPT ![c] = [kind |-> "params", val |-> o.val]]
                [] o.kind = "raise" ->
                    /\ Finish(c)
                    /\ pc' = [pc EXCEPT ![c] = "done"]
                    /\ result' = [result EXCEPT ![c] = [kind |-> "exception", val |-> o.val]]
                [] o.kind = "cancelled" ->
                    /\ Finish(c)
                    /\ pc' = [pc EXCEPT ![c] = "done"]
                    /\ result' = [result EXCEPT ![c] = [kind |-> "cancelled"]]
    /\ UNCHANGED <<cfg, peer, client, reader, writerClosed, closeCalls, id_gen,
                   sent, handle, auth, inbox, srvStep, peerSent, call, calls, cancels, ghost, wait_closed,
                   serverVars, codecVars>>

\* Task.cancel() on a user task suspended in recv_field: a waiter that is not
\* done is cancelled; either way the task is resumed with CancelledError.
Cancel(c) ==
    /\ pc[c] = "waiting"
    /\ ~cancelReq[c]
    /\ cancels < MaxCancels
    /\ Budget
    /\ cancels' = cancels + 1
    /\ cancelReq' = [cancelReq EXCEPT ![c] = TRUE]
    /\ fut' = [fut EXCEPT ![Waiter(c)] =
                 IF Done(@) THEN @ ELSE [st |-> "cancelled"]]
    /\ UNCHANGED <<cfg, peer, client, reader, writerClosed, closeCalls, id_gen,
                   sent, handle, auth, inbox, srvStep, peerSent, waiters, pc, call,
                   cur, calls, result, warned, hist, ghost,
                   serverVars, codecVars>>
    /\ StillActive

\* A user of the client calls Client.wait_closed: active_futures is the
\* waiter set as it is now plus the reader task, and asyncio.wait suspends
\* until all of them are done (those that are done already count at once).
WaitClosed ==
    /\ client = "open"
    /\ wait_closed.pc = "idle"
    /\ Budget
    /\ wait_closed' = [pc |-> "waiting",
                       active_futures |-> _active_waiters(waiters, fut)]
    /\ UNCHANGED <<cfg, peer, client, reader, writerClosed, closeCalls, id_gen,
                   sent, handle, auth, inbox, srvStep, peerSent, waiters, fut, pc,
                   call, cur, cancelReq, calls, cancels, result, warned, hist,
                   ghost,
                   serverVars, codecVars>>

\* asyncio.wait returns: the reader task and every waiter of active_futures
\* are done.
WaitClosedReturns ==
    /\ wait_closed.pc = "waiting"
    /\ wait_closed.active_futures = {}
    /\ reader = "done"
    /\ wait_closed' = [wait_closed EXCEPT !.pc = "done"]
    /\ UNCHANGED <<cfg, peer, client, reader, writerClosed, closeCalls, id_gen,
                   sent, handle, auth, inbox, srvStep, peerSent, waiters, fut, pc,
                   call, cur, cancelReq, calls, cancels, result, warned, hist,
                   ghost,
                   serverVars, codecVars>>

(* ------------------------------ the peer ------------------------------ *)

Sent(name) ==
    \E i \in 1..Len(sent) :
        /\ sent[i].type = "LINK"
        /\ \E j \in 1..Len(sent[i].fields) : sent[i].fields[j].name = name

\* The lock-step server: LINK/HELO on accepting, LINK/SCAR once it has
\* LINK/CCRE, LINK/SCON once it has LINK/CARE.
ServerHelo ==
    /\ peer = "lockstep" /\ client # "init" /\ srvStep = 0
    /\ inbox' = Append(inbox, Link("HELO"))
    /\ srvStep' = 1
    /\ UNCHANGED <<cfg, peer, client, reader, writerClosed, closeCalls, id_gen,
                   sent, handle, auth, peerSent, waiters, fut, pc, call, cur,
                   cancelReq, calls, cancels, result, warned, hist, ghost, wait_closed,
                   serverVars, codecVars>>

ServerScar ==
    /\ peer = "lockstep" /\ srvStep = 1 /\ Sent("CCRE")
    /\ inbox' = Append(inbox, Link("SCAR"))
    /\ srvStep' = 2
    /\ UNCHANGED <<cfg, peer, client, reader, writerClosed, closeCalls, id_gen,
                   sent, handle, auth, peerSent, waiters, fut, pc, call, cur,
                   cancelReq, calls, cancels, result, warned, hist, ghost, wait_closed,
                   serverVars, codecVars>>

ServerScon ==
    /\ peer = "lockstep" /\ srvStep = 2 /\ Sent("CARE")
    /\ inbox' = Append(inbox, Link("SCON"))
    /\ srvStep' = 3
    /\ UNCHANGED <<cfg, peer, client, reader, writerClosed, closeCalls, id_gen,
                   sent, handle, auth, peerSent, waiters, fut, pc, call, cur,
                   cancelReq, calls, cancels, result, warned, hist, ghost, wait_closed,
                   serverVars, codecVars>>

(* -------------------------------- Next -------------------------------- *)

AllFrames == LinkPackets \cup {BadFrame} \cup UserPackets

Next ==
    \/ Connect
    \/ HandleAuth
    \/ \E frame \in AllFrames : RunReader(frame)
    \/ ReaderCancelled
    \/ Close
    \/ \E c \in Callers, t \in RecvTypes, n \in RecvNames : RecvField(c, t, n)
    \/ \E c \in Callers, n \in RecvNames : ResponseRecvField(c, n)
    \/ \E c \in Callers, n \in SendNames : Send(c, "X", n)
    \/ \E c \in Callers : Resume(c)
    \/ \E c \in Callers : Cancel(c)
    \/ WaitClosed
    \/ WaitClosedReturns
    \/ ServerHelo
    \/ ServerScar
    \/ ServerScon

Spec == Init /\ [][Next]_vars


\* The event loop runs every task that is ready and the reader reads what
\* has arrived; the lock-step server answers what it has received.
Fairness ==
    /\ WF_vars(Connect)
    /\ WF_vars(HandleAuth)
    /\ WF_vars(\E frame \in AllFrames : RunReader(frame))
    /\ WF_vars(ReaderCancelled)
    /\ WF_vars(\E c \in Callers : Resume(c))
    /\ WF_vars(WaitClosedReturns)
    /\ WF_vars(ServerHelo)
    /\ WF_vars(ServerScar)
    /\ WF_vars(ServerScon)

FairSpec == Spec /\ Fairness

(* ------------------------------ properties ---------------------------- *)

Min(a, b) == IF a <= b THEN a ELSE b

DirectCall(t, f) == [packet_type |-> t, field_name |-> f, field_id |-> None]

\* The fields named f of a packet of type t: their positions.
Named(packet, t, f) ==
    IF packet.type = t
    THEN {j \in 1..Len(packet.fields) : packet.fields[j].name = f}
    ELSE {}

\* No auto-handler that is switched on acts on the field.
Unfiltered(field) ==
    /\ cfg.auto_erro => ~Has(field.params, "ERRO") /\ ~Has(field.params, "ERRC")
    /\ cfg.auto_warn => /\ field.name # "WARN"
                        /\ ~Has(field.params, "WARN") /\ ~Has(field.params, "WARC")
    /\ cfg.auto_ackn => ~Has(field.params, "ACKN")

\* The user tasks that were suspended in recv_field(t, f) on a waiter that
\* was not done when the reader read its last packet, and have been in that
\* call since.
Due(t, f) ==
    {c \in Callers : /\ ghost.reads > 0
                     /\ hist[c].dueSeq = ghost.reads
                     /\ call[c] = DirectCall(t, f)}

Returned(c) == pc[c] = "done" /\ result[c].kind = "params"

\* The waiter of c holds the last packet read and c has not been resumed yet.
Delivered(c) ==
    /\ pc[c] = "waiting"
    /\ fut[Waiter(c)] = [st |-> "result", val |-> ghost.last, seq |-> ghost.reads]

\* Every task of D has been resumed with the last packet read.
AllExamined(D) ==
    \A c \in D : hist[c].seenSeq = ghost.reads /\ ~Delivered(c)

\* C1, as stated: of the N callers suspended in recv_field(t, f) when a packet
\* of type t with K unfiltered fields named f is read, exactly min(N, K)
\* return and the other N - min(N, K) keep waiting.
C1_FanOutMinNK ==
    \A t \in RecvTypes, f \in RecvNames :
        LET D == Due(t, f)
            K == Cardinality(Named(ghost.last, t, f))
        IN  (/\ AllExamined(D)
             /\ \A j \in Named(ghost.last, t, f) : Unfiltered(ghost.last.fields[j]))
            => /\ Cardinality({c \in D : Returned(c)})
                    = Min(Cardinality(D), K)
               /\ Cardinality({c \in D : pc[c] = "waiting"})
                    = Cardinality(D) - Min(Cardinality(D), K)

\* C1, amended: the packet is delivered to all N callers, and when it has at
\* least one field named f (K >= 1) every one of them returns the params of
\* the first such field, unless it is cancelled first; when it has none
\* (K = 0) none of them returns.
C1_FanOutAll ==
    \A t \in RecvTypes, f \in RecvNames :
        LET D == Due(t, f)
            J == Named(ghost.last, t, f)
            first == ghost.last.fields[CHOOSE j \in J : \A k \in J : j <= k]
        IN  (\A j \in J : Unfiltered(ghost.last.fields[j]))
            => \A c \in D :
                  \/ Delivered(c)
                  \/ pc[c] = "done" /\ result[c].kind = "cancelled"
                  \/ /\ J # {}
                     /\ Returned(c)
                     /\ result[c].val = first.params
                  \/ /\ J = {}
                     /\ hist[c].seenSeq \in {0, ghost.reads}
                     /\ ~Returned(c)
                     /\ hist[c].seenSeq = 0 => pc[c] = "done"

\* Two callers were suspended in the same recv_field(t, f), one packet with a
\* single field named f was read, and both have been resumed with it.
C1_Witness ==
    \E t \in RecvTypes, f \in RecvNames :
        /\ Cardinality(Due(t, f)) = 2
        /\ Cardinality(Named(ghost.last, t, f)) = 1
        /\ \A j \in Named(ghost.last, t, f) : Unfiltered(ghost.last.fields[j])
        /\ AllExamined(Due(t, f))
        /\ \A c \in Due(t, f) : Returned(c)


\* The request field whose reply the call of c awaits: the field named in the
\* call, in the packet whose send returned the response the call was made on.
RequestField(c) ==
    LET rq == sent[hist[c].sendIdx]
    IN  rq.fields[CHOOSE j \in 1..Len(rq.fields) :
                     rq.fields[j].name = call[c].field_name]

\* C2: what recv_field returns through the response of a send is the params
\* of a field of a received packet of the type that was sent, with the name
\* asked for and the id that send gave to the field of that name.
C2_ReplyCorrelation ==
    \A c \in Callers :
        (hist[c].sendIdx > 0 /\ Returned(c))
        => /\ hist[c].seen.type = sent[hist[c].sendIdx].type
           /\ \E j \in 1..Len(hist[c].seen.fields) :
                 /\ hist[c].seen.fields[j].name = call[c].field_name
                 /\ hist[c].seen.fields[j].id = RequestField(c).id
                 /\ hist[c].seen.fields[j].params = result[c].val

\* A call made on the response of a send has returned the reply to it.
C2_Witness ==
    \E c \in Callers :
        /\ hist[c].sendIdx > 0
        /\ Returned(c)
        /\ call[c].field_id = RequestField(c).id
        /\ call[c].field_id >= 1

\* C3: a caller that was suspended in recv_field when close() was called does
\* not return params and is not left suspended on a waiter that nothing has
\* rejected: it fails with ConnectionClosed.
C3_CloseRejectsWaiters ==
    \A c \in Callers :
        hist[c].atClose
        => /\ ~Returned(c)
           /\ ~(pc[c] = "waiting" /\ fut[Waiter(c)].st = "pending")

\* C4: a recv_field call started after close() fails with ConnectionClosed
\* instead of suspending.
C4_RecvFieldAfterClose ==
    \A c \in Callers :
        hist[c].afterClose
        => /\ pc[c] = "done"
           /\ result[c] = [kind |-> "exception", val |-> ConnectionClosed]

\* C5: once read_packet has failed the reader has exited: it reads nothing
\* more from the socket.
C5_ReaderExitsOnFailure == ~ghost.readAfterFail


\* Task c was last resumed with a packet that has a field matching its call.
Examined(c) == hist[c].seenSeq > 0 /\ Matching(hist[c].seen, call[c]) # {}

\* The first field of that packet that matches the call.
FirstMatch(c) ==
    LET M == Matching(hist[c].seen, call[c])
    IN  hist[c].seen.fields[CHOOSE j \in M : \A k \in M : j <= k]

HasErro(field) == Has(field.params, "ERRO") \/ Has(field.params, "ERRC")
HasWarn(field) == Has(field.params, "WARN") \/ Has(field.params, "WARC")
HasAckn(field) == Has(field.params, "ACKN")

CommandAttributes == {"packet_type", "field_name", "field_id", "message", "code"}

\* C6: with auto_erro a matching field with ERRO or ERRC makes recv_field fail
\* with a CommandError that carries the packet type, the field's name and id,
\* the ERRO message and the ERRC code; without auto_erro its params are
\* returned (when no other filter skips the field).
C6_AutoErroGate ==
    \A c \in Callers :
        (Examined(c) /\ HasErro(FirstMatch(c)))
        => IF cfg.auto_erro
           THEN /\ pc[c] = "done"
                /\ result[c].kind = "exception"
                /\ result[c].val.cls = "CommandError"
                /\ CommandAttributes \subseteq DOMAIN result[c].val
                /\ result[c].val.packet_type = call[c].packet_type
                /\ result[c].val.field_name = FirstMatch(c).name
                /\ result[c].val.field_id = FirstMatch(c).id
                /\ result[c].val.message = GetStr(FirstMatch(c).params, "ERRO")
                /\ result[c].val.code = GetInt(FirstMatch(c).params, "ERRC")
           ELSE (/\ ~(cfg.auto_warn /\ FirstMatch(c).name = "WARN")
                 /\ ~(cfg.auto_ackn /\ HasAckn(FirstMatch(c))))
                => Returned(c) /\ result[c].val = FirstMatch(c).params

\* C7: with auto_ackn no field with ACKN is returned, and a caller for which
\* the reader has read an acknowledgement and then a plain reply is not left
\* waiting: the reply was delivered to it.
C7_AcknSkip ==
    cfg.auto_ackn =>
        \A c \in Callers :
            /\ Returned(c) => ~Has(result[c].val, "ACKN")
            /\ hist[c].ack = 2
               => ~(pc[c] = "waiting" /\ fut[Waiter(c)].st = "pending")

\* The warning _handle_warn emits for a field.
WarningFor(c, field) ==
    CommandWarning(call[c].packet_type, field.name, field.id,
                   GetStr(field.params, "WARN"), GetInt(field.params, "WARC"))

Emitted(c, w) == \E k \in 1..Len(warned[c]) : warned[c][k] = w

\* The erro filter lets the first matching field through to the warn filter.
ReachesWarn(c) ==
    /\ cfg.auto_warn
    /\ Examined(c)
    /\ ~(cfg.auto_erro /\ HasErro(FirstMatch(c)))

\* The packet holds one field for the call; skipping it leaves the call waiting.
Skipped(c) == pc[c] = "waiting" /\ hist[c].seenSeq > 0

\* C8, as stated: the warn filter acts only on fields with WARN or WARC, which
\* it skips when their name is WARN; a field with neither is passed on
\* whatever its name.
C8_WarnFilterOnlyOnWarnParams ==
    \A c \in Callers :
        LET field == FirstMatch(c)
        IN  ReachesWarn(c) =>
              /\ Emitted(c, WarningFor(c, field)) <=> HasWarn(field)
              /\ (HasWarn(field) /\ field.name = "WARN"
                  /\ Cardinality(Matching(hist[c].seen, call[c])) = 1)
                 => Skipped(c)
              /\ (~(HasWarn(field) /\ field.name = "WARN")
                  /\ ~(cfg.auto_ackn /\ HasAckn(field)))
                 => Returned(c) /\ result[c].val = field.params

\* C8, amended: the warn filter emits a CommandWarning exactly for the fields
\* with WARN or WARC, and skips exactly the fields whose own name is WARN,
\* with or without WARN or WARC in their params; a field of another name is
\* passed on to the next filter unchanged.
C8_WarnFilterSkipsByName ==
    \A c \in Callers :
        LET field == FirstMatch(c)
        IN  ReachesWarn(c) =>
              /\ Emitted(c, WarningFor(c, field)) <=> HasWarn(field)
              /\ (field.name = "WARN"
                  /\ Cardinality(Matching(hist[c].seen, call[c])) = 1)
                 => Skipped(c)
              /\ (field.name # "WARN" /\ ~(cfg.auto_ackn /\ HasAckn(field)))
                 => Returned(c) /\ result[c].val = field.params

\* A call for the field named WARN has examined a field of that name that
\* carries no warning, and goes on waiting.
C8_Witness ==
    \E c \in Callers :
        /\ ReachesWarn(c)
        /\ FirstMatch(c).name = "WARN" /\ ~HasWarn(FirstMatch(c))
        /\ Skipped(c)


\* The ids of one sent packet in the order send draws them: its fields' ids,
\* then its own.
PacketIds(packet) ==
    [j \in 1..Len(packet.fields) + 1 |->
        IF j <= Len(packet.fields) THEN packet.fields[j].id ELSE packet.id]

RECURSIVE IdsOf(_)
IdsOf(packets) ==
    IF packets = <<>> THEN <<>>
    ELSE PacketIds(Head(packets)) \o IdsOf(Tail(packets))

\* C9: the ids drawn on one connection, field ids and packet ids together in
\* the order drawn, are strictly increasing, and they are the ids on the
\* packets sent: no two fields or packets share an id, and a packet's id is
\* a draw of its own, after those of its fields.
C9_MonotonicIds ==
    /\ \A i, j \in 1..Len(ghost.drawn) : i < j => ghost.drawn[i] < ghost.drawn[j]
    /\ IdsOf(sent) = ghost.drawn
    /\ \A k \in 1..Len(sent) :
          /\ \A i, j \in 1..Len(sent[k].fields) :
                i # j => sent[k].fields[i].id # sent[k].fields[j].id
          /\ \A i \in 1..Len(sent[k].fields) : sent[k].fields[i].id < sent[k].id
    /\ \A i \in 1..Len(ghost.drawn) : ghost.drawn[i] <= id_gen

\* Three packets were sent, the last of them with two fields.
C9_Witness ==
    /\ Len(sent) = 3
    /\ Len(sent[3].fields) = 2
    /\ Len(ghost.drawn) = 7

HandshakeSteps == <<"HELO", "CCRE", "SCAR", "CARE", "SCON", "return">>

IsPrefix(a, b) == Len(a) <= Len(b) /\ \A i \in 1..Len(a) : a[i] = b[i]

\* The fields of the LINK packets sent, in the order sent.
LinkSent ==
    LET links == SelectSeq(sent, LAMBDA q : q.type = "LINK")
    IN  [i \in 1..Len(links) |-> links[i].fields[1]]

\* The steps of connect are in the order of the handshake, each LINK field is
\* sent only after the field before it was received, connect returns only
\* after SCON was received, and without auto_auth connect returns at once,
\* sends no LINK packet and awaits none.
HandshakeOrder ==
    IF cfg.auto_auth
    THEN /\ IsPrefix(ghost.events, HandshakeSteps)
         /\ (client = "open") = (Len(ghost.events) = 6)
         /\ Len(LinkSent) = (IF Len(ghost.events) >= 4 THEN 2
                             ELSE IF Len(ghost.events) >= 2 THEN 1 ELSE 0)
         /\ Len(LinkSent) >= 1 =>
               /\ LinkSent[1].name = "CCRE"
               /\ LinkSent[1].params = [CIW |-> CLIENT_ID]
         /\ Len(LinkSent) >= 2 =>
               /\ LinkSent[2].name = "CARE"
               /\ LinkSent[2].params = [CAR |-> CLIENT_ID]
         /\ peer = "lockstep" =>
               /\ Len(LinkSent) >= 1 => srvStep >= 1
               /\ Len(LinkSent) >= 2 => srvStep >= 2
               /\ client = "open" => srvStep = 3 /\ inbox = <<>>
               /\ client # "failed"
    ELSE /\ ghost.events \in {<<>>, <<"return">>}
         /\ client \in {"init", "open"}
         /\ LinkSent = <<>>
         /\ pc[ConnectTask] = "idle"
         /\ ConnectTask \notin {w[1] : w \in waiters}

\* C10: the handshake of connect against the lock-step server is in order,
\* and connect returns; without auto_auth connect returns without it.
C10_ClientHandshake ==
    /\ []HandshakeOrder
    /\ (peer = "lockstep" \/ ~cfg.auto_auth) => <>(client = "open")

\* connect has returned after the whole handshake with the lock-step server.
C10_Witness ==
    /\ cfg.auto_auth
    /\ peer = "lockstep"
    /\ client = "open"
    /\ ghost.events = HandshakeSteps
    /\ srvStep = 3

(* ------------------------- handshake failure -------------------------- *)

\* C11: when a step of the handshake fails, the connection is closed (the
\* reader cancelled, the socket closed) before connect raises the error.
C11_HandshakeFailureCloses ==
    client = "failed" =>
        /\ reader \in {"cancelling", "done"}
        /\ writerClosed

(* --------------------------- close, again ----------------------------- *)

\* C12: a second close() changes nothing: the reader stays cancelled, the
\* socket stays closed and no future is rejected by it.
C12_CloseIdempotent ==
    [][(closeCalls >= 1 /\ closeCalls' = closeCalls + 1)
       => /\ reader' = reader
          /\ writerClosed' = writerClosed
          /\ fut' = fut]_vars

(* ----------------------------- wait_closed ---------------------------- *)

\* wait_closed has returned only when the reader task has stopped and every
\* caller that was suspended at close() was rejected.
WaitClosedAfterAll ==
    wait_closed.pc = "done" =>
        /\ reader = "done"
        /\ \A c \in Callers :
              hist[c].atClose
              => /\ ~Returned(c)
                 /\ ~(pc[c] = "waiting" /\ fut[Waiter(c)].st = "pending")

\* A wait_closed that is waiting on a closed client returns.
WaitClosedReturnsAfterClose ==
    (wait_closed.pc = "waiting" /\ closeCalls >= 1) ~> (wait_closed.pc = "done")

\* C13: after close(), wait_closed() completes, and only once the reader
\* task has stopped and every waiter outstanding at close was rejected.
C13_WaitClosed == []WaitClosedAfterAll /\ WaitClosedReturnsAfterClose

(* ------------------------------ the server ---------------------------- *)

\* The exceptions `except NCPError` catches: the decode and command errors
\* and the errors of the network.
NCPError == {"DecodeError", "CommandError", "ConnectionClosed"}

\* What a handler may raise besides.
OtherErrors == {"ValueError"}

\* One entry of the log of a Connection: what the task did on it.
Ev(ev, name, params) == [ev |-> ev, name |-> name, params |-> params]

\* Connection.send(packet_type, field_name, **params) on LINK.
ConnSend(c, name, params) == [c EXCEPT !.log = Append(@, Ev("send", name, params))]

\* The Connection built at the top of _run_client_connected.
NewConnection == [NoConnection EXCEPT !.built = TRUE]

\* The handler is invoked: connection._start_tasks() and then
\* self._client_connected(connection).
InvokeHandler(c) == [c EXCEPT !.log = Append(@, Ev("handler", "", NoParams))]

\* The finally clause up to its await: connection.close(), then
\* connection.wait_closed() is awaited.
Finally(c) ==
    [c EXCEPT !.is_closing = TRUE,
              !.close_calls = @ + 1,
              !.wait_closed = "awaited",
              !.log = @ \o <<Ev("close", "", NoParams), Ev("wait_closed", "", NoParams)>>]

\* The reply to the client, a faulty variant: SCON at once.
HandshakeReply_SconFirst(got) == "SCON"

\* The reply to the client after CCRE, and after CARE.
HandshakeReply(got) == IF got = "CCRE" THEN "SCAR" ELSE "SCON"

\* The except clauses for an exception of class cls, a faulty variant: the
\* reply is sent whether or not the connection is closing.
ErrorReply_Always(c, cls) ==
    IF cls \in NCPError
    THEN ConnSend(c, "ERRO", [ERRO |-> "Bad request", ERRC |-> 400])
    ELSE ConnSend(c, "ERRO", [ERRO |-> "Server error", ERRC |-> 500])

\* The except clauses of _run_client_connected for an exception of class cls.
ErrorReply(c, cls) ==
    IF cls \in NCPError
    THEN IF ~c.is_closing
         THEN ConnSend(c, "ERRO", [ERRO |-> "Bad request", ERRC |-> 400])
         ELSE c
    ELSE IF ~c.is_closing
         THEN ConnSend(c, "ERRO", [ERRO |-> "Server error", ERRC |-> 500])
         ELSE c

\* The KeyError branch, a faulty variant: the handshake goes on after the
\* reply.
MissingCiw_GoesOn(c) ==
    ConnSend([c EXCEPT !.log = Append(@,
                  Ev("reply", "CCRE",
                     [ERRO |-> "CIW - This field is required", ERRC |-> 401]))],
             "SCAR", NoParams)

\* The KeyError branch: field.send(ERRO=..., ERRC=401) replies to the CCRE
\* field (the return that follows runs the finally clause).
MissingCiw(c) ==
    [c EXCEPT !.log = Append(@,
        Ev("reply", "CCRE",
           [ERRO |-> "CIW - This field is required", ERRC |-> 401]))]

\* History: an exception of class cls reaches the except clauses, on a
\* connection that is closing or not.
Raised(c, cls) ==
    [c EXCEPT !.log = Append(@, Ev("raise", cls, [is_closing |-> c.is_closing]))]

\* The task is suspended in the try block.
InTry(k) == task[k].pc \in {"recv_ccre", "recv_care", "handler"}

\* Server._handle_client_connected: a socket is accepted, the task is created
\* and added to the handler set.
Accept(k) ==
    /\ _server = "listening"
    /\ task[k].pc = "none"
    /\ \A j \in Conns : j < k => task[j].pc # "none"
    /\ task' = [task EXCEPT ![k].pc = "created"]
    /\ _handlers' = _handlers \cup {k}
    /\ UNCHANGED <<_auto_auth, _server, connection, server_closes,
                   server_wait_closed, clientVars, codecVars>>

\* The first step of the task. A task cancelled before it has run gets
\* CancelledError thrown into the coroutine before its first statement:
\* nothing of _run_client_connected is executed.
Start(k) ==
    /\ task[k].pc = "created"
    /\ IF task[k].must_cancel
       THEN /\ task' = [task EXCEPT ![k] = [pc |-> "done", must_cancel |-> FALSE,
                                            outcome |-> "cancelled"]]
            /\ UNCHANGED connection
       ELSE IF _auto_auth
       THEN /\ task' = [task EXCEPT ![k].pc = "recv_ccre"]
            /\ connection' = [connection EXCEPT
                                ![k] = ConnSend(NewConnection, "HELO", NoParams)]
       ELSE /\ task' = [task EXCEPT ![k].pc = "handler"]
            /\ connection' = [connection EXCEPT ![k] = InvokeHandler(NewConnection)]
    /\ UNCHANGED <<_auto_auth, _server, _handlers, server_closes,
                   server_wait_closed, clientVars, codecVars>>

\* recv_field("LINK", "CCRE") returns a field with the given params.
Ccre(k, params) ==
    /\ task[k].pc = "recv_ccre"
    /\ ~task[k].must_cancel
    /\ ~connection[k].is_closing
    /\ LET c == [connection[k] EXCEPT !.log = Append(@, Ev("recv", "CCRE", params))]
       IN  IF Has(params, "CIW")
           THEN /\ connection' = [connection EXCEPT
                                    ![k] = ConnSend(c, HandshakeReply("CCRE"), NoParams)]
                /\ task' = [task EXCEPT ![k].pc = "recv_care"]
           ELSE /\ connection' = [connection EXCEPT ![k] = Finally(MissingCiw(c))]
                /\ task' = [task EXCEPT ![k].pc = "wait_closed", ![k].outcome = "return"]
    /\ UNCHANGED <<_auto_auth, _server, _handlers, server_closes,
                   server_wait_closed, clientVars, codecVars>>

\* recv_field("LINK", "CARE") returns a field.
Care(k) ==
    /\ task[k].pc = "recv_care"
    /\ ~task[k].must_cancel
    /\ ~connection[k].is_closing
    /\ connection' = [connection EXCEPT ![k] =
          InvokeHandler(ConnSend([@ EXCEPT !.log = Append(@, Ev("recv", "CARE",
                                                               [CAR |-> CLIENT_ID]))],
                                 HandshakeReply("CARE"), NoParams))]
    /\ task' = [task EXCEPT ![k].pc = "handler"]
    /\ UNCHANGED <<_auto_auth, _server, _handlers, server_closes,
                   server_wait_closed, clientVars, codecVars>>

\* The handler returns.
HandlerReturns(k) ==
    /\ task[k].pc = "handler"
    /\ ~task[k].must_cancel
    /\ connection' = [connection EXCEPT ![k] = Finally(@)]
    /\ task' = [task EXCEPT ![k].pc = "wait_closed", ![k].outcome = "return"]
    /\ UNCHANGED <<_auto_auth, _server, _handlers, server_closes,
                   server_wait_closed, clientVars, codecVars>>

\* An exception of class cls is raised in the try block: by recv_field during
\* the handshake (ConnectionClosed when the connection is closing, else a
\* decode or command error) or by the handler (anything).
Raises(k, cls) ==
    /\ InTry(k)
    /\ ~task[k].must_cancel
    /\ task[k].pc # "handler" =>
          /\ cls \in NCPError
          /\ (cls = "ConnectionClosed") = connection[k].is_closing
    /\ connection' = [connection EXCEPT ![k] = Finally(ErrorReply(Raised(@, cls), cls))]
    /\ task' = [task EXCEPT ![k].pc = "wait_closed", ![k].outcome = "return"]
    /\ UNCHANGED <<_auto_auth, _server, _handlers, server_closes,
                   server_wait_closed, clientVars, codecVars>>

\* The client goes away: the transport of the connection is closing.
PeerCloses(k) ==
    /\ InTry(k)
    /\ ~connection[k].is_closing
    /\ connection' = [connection EXCEPT ![k].is_closing = TRUE]
    /\ UNCHANGED <<_auto_auth, _server, _handlers, task, server_closes,
                   server_wait_closed, clientVars, codecVars>>

\* The cancelled task is resumed with CancelledError. In the try block it is
\* re-raised and the finally clause runs; at the await of the finally clause
\* it ends the task.
Cancelled(k) ==
    /\ task[k].must_cancel
    /\ \/ /\ InTry(k)
          /\ connection' = [connection EXCEPT ![k] = Finally(Raised(@, "CancelledError"))]
          /\ task' = [task EXCEPT ![k] = [pc |-> "wait_closed", must_cancel |-> FALSE,
                                          outcome |-> "cancelled"]]
       \/ /\ task[k].pc = "wait_closed"
          /\ task' = [task EXCEPT ![k] = [pc |-> "done", must_cancel |-> FALSE,
                                          outcome |-> "cancelled"]]
          /\ UNCHANGED connection
    /\ UNCHANGED <<_auto_auth, _server, _handlers, server_closes,
                   server_wait_closed, clientVars, codecVars>>

\* connection.wait_closed() completes and the task finishes.
Closed(k) ==
    /\ task[k].pc = "wait_closed"
    /\ ~task[k].must_cancel
    /\ connection' = [connection EXCEPT ![k].wait_closed = "completed"]
    /\ task' = [task EXCEPT ![k].pc = "done"]
    /\ UNCHANGED <<_auto_auth, _server, _handlers, server_closes,
                   server_wait_closed, clientVars, codecVars>>

\* The done callback of a finished task: self._handlers.remove.
DoneCallback(k) ==
    /\ task[k].pc = "done"
    /\ k \in _handlers
    /\ _handlers' = _handlers \ {k}
    /\ UNCHANGED <<_auto_auth, _server, task, connection, server_closes,
                   server_wait_closed, clientVars, codecVars>>

\* Server.close, a faulty variant: the listener is closed and no task is
\* cancelled.
ServerClose_NoCancel ==
    /\ server_closes < MaxServerClose
    /\ server_closes' = server_closes + 1
    /\ _server' = "closed"
    /\ UNCHANGED <<_auto_auth, _handlers, task, connection, server_wait_closed,
                   clientVars, codecVars>>

\* Server.close: the listener is closed and every task of the handler set is
\* cancelled (cancel() on a finished task does nothing).
ServerClose ==
    /\ server_closes < MaxServerClose
    /\ server_closes' = server_closes + 1
    /\ _server' = "closed"
    /\ task' = [k \in Conns |->
                  IF k \in _handlers /\ task[k].pc # "done"
                  THEN [task[k] EXCEPT !.must_cancel = TRUE]
                  ELSE task[k]]
    /\ UNCHANGED <<_auto_auth, _handlers, connection, server_wait_closed,
                   clientVars, codecVars>>

\* Server.wait_closed is called, after close: with a handler set that is not
\* empty it awaits asyncio.wait on the tasks in it, else the listener.
ServerWaitClosed ==
    /\ server_closes >= 1
    /\ server_wait_closed.pc = "idle"
    /\ server_wait_closed' = [pc |-> IF _handlers # {} THEN "handlers" ELSE "listener",
                              fs |-> _handlers]
    /\ UNCHANGED <<_auto_auth, _server, _handlers, task, connection,
                   server_closes, clientVars, codecVars>>

\* asyncio.wait returns: every task it was given is done.
ServerHandlersDone ==
    /\ server_wait_closed.pc = "handlers"
    /\ \A k \in server_wait_closed.fs : task[k].pc = "done"
    /\ server_wait_closed' = [server_wait_closed EXCEPT !.pc = "listener"]
    /\ UNCHANGED <<_auto_auth, _server, _handlers, task, connection,
                   server_closes, clientVars, codecVars>>

\* self._server.wait_closed() returns and with it Server.wait_closed.
ServerWaitClosedReturns ==
    /\ server_wait_closed.pc = "listener"
    /\ _server = "closed"
    /\ server_wait_closed' = [server_wait_closed EXCEPT !.pc = "done"]
    /\ UNCHANGED <<_auto_auth, _server, _handlers, task, connection,
                   server_closes, clientVars, codecVars>>

CcreParams == {[CIW |-> CLIENT_ID], NoParams}

ServerInit ==
    /\ _auto_auth \in BOOLEAN
    /\ ServerStarted
    /\ cfg = [auto_auth |-> TRUE, auto_erro |-> TRUE, auto_warn |-> TRUE,
              auto_ackn |-> TRUE]
    /\ peer = "free"
    /\ ClientCreated
    /\ CodecIdle

ServerNext ==
    \/ \E k \in Conns : Accept(k)
    \/ \E k \in Conns : Start(k)
    \/ \E k \in Conns, params \in CcreParams : Ccre(k, params)
    \/ \E k \in Conns : Care(k)
    \/ \E k \in Conns : HandlerReturns(k)
    \/ \E k \in Conns, cls \in NCPError \cup OtherErrors : Raises(k, cls)
    \/ \E k \in Conns : PeerCloses(k)
    \/ \E k \in Conns : Cancelled(k)
    \/ \E k \in Conns : Closed(k)
    \/ \E k \in Conns : DoneCallback(k)
    \/ ServerClose
    \/ ServerWaitClosed
    \/ ServerHandlersDone
    \/ ServerWaitClosedReturns

ServerSpec == ServerInit /\ [][ServerNext]_vars

\* The event loop runs every task that is ready and every callback that is
\* due, and a Connection that was closed finishes closing.
ServerFairness ==
    /\ \A k \in Conns : WF_vars(Start(k))
    /\ \A k \in Conns : WF_vars(Cancelled(k))
    /\ \A k \in Conns : WF_vars(Closed(k))
    /\ \A k \in Conns : WF_vars(DoneCallback(k))
    /\ WF_vars(ServerHandlersDone)
    /\ WF_vars(ServerWaitClosedReturns)

FairServerSpec == ServerSpec /\ ServerFairness

(* ------------------------- server properties -------------------------- *)

\* What the task does on a connection for the handshake and the handler, in
\* order: the LINK fields it sends and receives and the call of the handler.
ServerSteps ==
    <<<<"send", "HELO">>, <<"recv", "CCRE">>, <<"send", "SCAR">>,
      <<"recv", "CARE">>, <<"send", "SCON">>, <<"handler", "">>>>

\* The steps of that kind in the log of connection k.
StepsOf(k) ==
    LET steps == SelectSeq(connection[k].log,
                           LAMBDA e : \/ e.ev \in {"recv", "handler"}
                                      \/ e.ev = "send" /\ e.name # "ERRO")
    IN  [i \in 1..Len(steps) |-> <<steps[i].ev, steps[i].name>>]

\* C14: with auto_auth the server sends HELO, receives CCRE, sends SCAR,
\* receives CARE, sends SCON and only then invokes the handler, in this
\* order on every connection; without auto_auth the handler is invoked
\* without any LINK exchange.
C14_ServerHandshake ==
    \A k \in Conns :
        IF _auto_auth
        THEN IsPrefix(StepsOf(k), ServerSteps)
        ELSE connection[k].built => StepsOf(k) = <<<<"handler", "">>>>

\* A connection on which the handler was invoked after the whole handshake.
C14_Witness ==
    /\ _auto_auth
    /\ \E k \in Conns : StepsOf(k) = ServerSteps

\* The CCRE field received on connection k had no CIW.
CcreWithoutCiw(k) ==
    \E i \in 1..Len(connection[k].log) :
        /\ connection[k].log[i].ev = "recv"
        /\ connection[k].log[i].name = "CCRE"
        /\ ~Has(connection[k].log[i].params, "CIW")

\* C15: on a CCRE without CIW the server replies to the field with ERRO
\* "CIW - This field is required" and ERRC 401 and closes the connection;
\* it sends nothing else after HELO (no SCAR, no SCON, no LINK/ERRO) and
\* does not invoke the handler.
C15_MissingCiw ==
    \A k \in Conns :
        CcreWithoutCiw(k)
        => /\ connection[k].log =
                <<Ev("send", "HELO", NoParams),
                  Ev("recv", "CCRE", NoParams),
                  Ev("reply", "CCRE",
                     [ERRO |-> "CIW - This field is required", ERRC |-> 401]),
                  Ev("close", "", NoParams),
                  Ev("wait_closed", "", NoParams)>>
           /\ connection[k].close_calls = 1
           /\ connection[k].is_closing
           /\ task[k].pc \in {"wait_closed", "done"}

\* The task of a connection rejected for its missing CIW has finished.
C15_Witness ==
    \E k \in Conns :
        /\ CcreWithoutCiw(k)
        /\ task[k].pc = "done"
        /\ connection[k].wait_closed = "completed"

\* C16: when the task of a connection has finished, whatever the way it
\* ended, connection.close() was called exactly once and
\* connection.wait_closed() was awaited.
C16_ConnectionAlwaysClosed ==
    \A k \in Conns :
        task[k].pc = "done"
        => /\ connection[k].close_calls = 1
           /\ connection[k].wait_closed \in {"awaited", "completed"}

\* The LINK/ERRO field the server owes for an exception of class cls.
BadRequest == Ev("send", "ERRO", [ERRO |-> "Bad request", ERRC |-> 400])
ServerError == Ev("send", "ERRO", [ERRO |-> "Server error", ERRC |-> 500])

\* The entries of the log of connection k where an exception reached the
\* except clauses, and those where a LINK/ERRO was sent.
RaisedAt(k) ==
    {i \in 1..Len(connection[k].log) : connection[k].log[i].ev = "raise"}
ErroAt(k) ==
    {i \in 1..Len(connection[k].log) :
        connection[k].log[i].ev = "send" /\ connection[k].log[i].name = "ERRO"}

Unfinished == {k \in Conns : task[k].pc \notin {"none", "done"}}

\* The handler set is exactly the set of the unfinished tasks.
HandlersExact == _handlers = Unfinished

\* The handler set holds every unfinished task and, besides, only finished
\* tasks whose done callback has not run yet.
HandlersCover ==
    /\ Unfinished \subseteq _handlers
    /\ \A k \in _handlers : task[k].pc # "none"

\* Server.close stops the listener and cancels every task of the handler set.
CloseCancels ==
    [][server_closes' = server_closes + 1
       => /\ _server' = "closed"
          /\ \A k \in _handlers :
                task[k].pc # "done" => task'[k].must_cancel]_vars

\* Server.wait_closed has returned only when the listener is closed and every
\* task has finished.
WaitClosedAfterTasks ==
    server_wait_closed.pc = "done" =>
        /\ _server = "closed"
        /\ Unfinished = {}

\* Server.wait_closed, once called, returns.
ServerWaitClosedCompletes ==
    (server_wait_closed.pc # "idle") ~> (server_wait_closed.pc = "done")

\* C18 as stated: the handler set is always exactly the set of the tasks that
\* have not finished; close stops the listener and cancels them all; a
\* wait_closed called after close returns, and only once they have all
\* finished and the listener is closed.
C18_ServerShutdownExact ==
    /\ []HandlersExact
    /\ CloseCancels
    /\ []WaitClosedAfterTasks
    /\ ServerWaitClosedCompletes

\* C18: the handler set always holds every task that has not finished (a
\* finished task stays in it until its done callback has run); close stops
\* the listener and cancels every unfinished task of the set; a wait_closed
\* called after close returns, and only once all tasks have finished and
\* the listener is closed.
C18_ServerShutdown ==
    /\ []HandlersCover
    /\ CloseCancels
    /\ []WaitClosedAfterTasks
    /\ ServerWaitClosedCompletes

\* wait_closed has returned after close cancelled two tasks, one of them in
\* its handler.
C18_Witness ==
    /\ server_wait_closed.pc = "done"
    /\ server_wait_closed.fs = Conns
    /\ \A k \in Conns : task[k].pc = "done" /\ task[k].outcome = "cancelled"
    /\ \E k \in Conns :
          \E i \in 1..Len(connection[k].log) : connection[k].log[i].ev = "handler"

\* ---------------------------------------------------------------------------
\* The packet codec (packets.py).  Bytes are sequences of numbers in 0..255;
\* a Python offset o is the index o + 1 of the sequence.
\* ---------------------------------------------------------------------------

\* The most fields of a packet given to encode_packet.
MaxFields == 2
\* The most params of a packet given to encode_packet, over all its fields.
MaxParams == 2
\* The most footers embedded in one packet.
MaxEmbedded == 1

\* b"\x00" * n
Zeros(n) == [i \in 1..n |-> 0]

\* buf[a:z] of Python, for 0 <= a: the bytes at the offsets a .. z-1 that exist.
Slice(b, a, z) == SubSeq(b, a + 1, Min(z, Len(b)))

\* int.to_bytes(w, "little") and the "<I" format of struct
to_bytes(n, w) == [i \in 1..w |-> (n \div (256 ^ (i - 1))) % 256]

\* int.from_bytes(bs, "little")
RECURSIVE from_bytes(_)
from_bytes(bs) ==
    IF bs = <<>> THEN 0 ELSE Head(bs) + 256 * from_bytes(Tail(bs))

\* The "4s" format of struct: the first four bytes, padded with NULs.
Pack4s(s) == [i \in 1..4 |-> IF i <= Len(s) THEN s[i] ELSE 0]

\* bytes.rstrip(b" \x00")
RECURSIVE rstrip(_)
rstrip(value) ==
    IF value # <<>> /\ value[Len(value)] \in {0, 32}
    THEN rstrip(SubSeq(value, 1, Len(value) - 1))
    ELSE value

\* decode_identifier: latin1 maps each byte to the character of that code, so
\* an identifier is kept as the sequence of its character codes.
decode_identifier(value) == rstrip(value)

\* The identifiers used here, as their latin1 codes.
id_TEST == <<84, 69, 83, 84>>
id_ECHO == <<69, 67, 72, 79>>
id_CIW == <<67, 73, 87>>
id_VALU == <<86, 65, 76, 85>>
info_0000 == <<48, 48, 48, 48>>

\* The tag bytes of the value codec.
TYPE_I32 == 0
TYPE_U32 == 1
TYPE_STRING == 2

\* The param values: a number and the strings "a", "ab" and "abc".
Values ==
    {[type |-> "u32", v |-> 42], [type |-> "string", v |-> <<97>>], [type |-> "string", v |-> <<97, 98>>],
     [type |-> "string", v |-> <<97, 98, 99>>]}

\* The four bytes of a signed 32-bit number, little-endian, two's complement.
i32_bytes(n) ==
    IF n >= 0 THEN to_bytes(n, 4)
    ELSE [i \in 1..4 |-> 255 - to_bytes(-n - 1, 4)[i]]

\* encode_value: the tag byte and the payload of a value; a number is four
\* bytes little-endian, signed if negative and unsigned otherwise, a string
\* is its latin1 bytes with no terminator.
encode_value(value) ==
    CASE value.type = "string" -> <<TYPE_STRING, value.v>>
      [] value.v < 0 -> <<TYPE_I32, i32_bytes(value.v)>>
      [] OTHER -> <<TYPE_U32, to_bytes(value.v, 4)>>

\* decode_value: the value of a tag byte and a payload; a string loses the
\* NULs that padded it.  An unknown tag or a number that is not four bytes
\* is an error.
decode_value(type_id, encoded) ==
    CASE type_id = TYPE_STRING -> [type |-> "string", v |-> rstrip(encoded)]
      [] type_id = TYPE_I32 /\ Len(encoded) = 4 ->
            [type |-> "i32",
             v |-> IF encoded[4] >= 128
                   THEN -from_bytes([i \in 1..4 |-> 255 - encoded[i]]) - 1
                   ELSE from_bytes(encoded)]
      [] type_id = TYPE_U32 /\ Len(encoded) = 4 ->
            [type |-> "u32", v |-> from_bytes(encoded)]
      [] OTHER -> [type |-> "error", v |-> 0]

\* PACKET_HEADER_STRUCT.pack_into
PACKET_HEADER(packet_type, size_words, packet_id, timestamp, info) ==
    <<221, 204, 187, 170>> \o Pack4s(packet_type) \o to_bytes(size_words, 4)
        \o to_bytes(packet_id, 4) \o <<1, 0, 0, 0>>
        \o to_bytes(timestamp[1], 4) \o to_bytes(timestamp[2], 4) \o Pack4s(info)

\* The packet footer with no checksum.
PACKET_FOOTER == <<0, 0, 0, 0, 170, 187, 204, 221>>

\* A faulty variant of the padding: none.
param_padding_size_None(param_size) == 0

\* param_padding_size = -param_size % 4
param_padding_size(param_size) == (-param_size) % 4

\* One param of encode_packet: its header, its value and its padding.
encode_param(param) ==
    LET enc == encode_value(param.value)
        param_size == 8 + Len(enc[2])
        pad == param_padding_size(param_size)
    IN  Pack4s(param.name) \o to_bytes((param_size + pad) \div 4, 3) \o <<enc[1]>>
            \o enc[2] \o Zeros(pad)

\* The params of one field of encode_packet, in the order of the mapping.
RECURSIVE encode_params(_)
encode_params(params) ==
    IF params = <<>> THEN <<>>
    ELSE encode_param(Head(params)) \o encode_params(Tail(params))

\* One field of encode_packet: the header, with the size written once the
\* params are, and the params.
encode_field(field) ==
    LET ps == encode_params(field.params)
    IN  Pack4s(field.name) \o to_bytes((12 + Len(ps)) \div 4, 3) \o <<0>>
            \o to_bytes(field.id, 4) \o ps

RECURSIVE encode_fields(_)
encode_fields(fields) ==
    IF fields = <<>> THEN <<>>
    ELSE encode_field(Head(fields)) \o encode_fields(Tail(fields))

\* encode_packet
encode_packet(packet_type, packet_id, timestamp, info, fields) ==
    LET fs == encode_fields(fields)
        offset == 32 + Len(fs)
    IN  PACKET_HEADER(packet_type, (offset + 8) \div 4, packet_id, timestamp, info)
            \o fs \o PACKET_FOOTER

\* params[name] = value on an ordered mapping: a new key goes last, a key that
\* is there keeps its place.
OrderedDictSet(params, name, value) ==
    IF \E i \in 1..Len(params) : params[i].name = name
    THEN [i \in 1..Len(params) |->
             IF params[i].name = name THEN [name |-> name, value |-> value]
             ELSE params[i]]
    ELSE Append(params, [name |-> name, value |-> value])

\* decode_fields as it starts: before the first field, nothing decoded.
DecodeStart(offset) ==
    [pc |-> "field", offset |-> offset, param_limit |-> 0, field_name |-> <<>>,
     field_id |-> 0, params |-> <<>>, fields |-> <<>>, warnings |-> <<>>,
     error |-> "none"]

\* A faulty variant of the skip of an embedded footer: four bytes.
skip_footer_Half(offset) == offset + 4

\* offset += 8 past an embedded footer
skip_footer(offset) == offset + 8

\* One turn of the field loop of decode_fields: the field header is decoded,
\* or the loop is left and the field overflow is checked.
FieldIteration(b, field_limit, st) ==
    IF st.offset < field_limit
    THEN IF st.offset + 12 > Len(b)
         THEN [st EXCEPT !.pc = "error", !.error = "struct.error"]
         ELSE [st EXCEPT
                 !.pc = "param",
                 !.field_name = Slice(b, st.offset, st.offset + 4),
                 !.param_limit =
                     st.offset + from_bytes(Slice(b, st.offset + 4, st.offset + 7)) * 4,
                 !.field_id = from_bytes(Slice(b, st.offset + 8, st.offset + 12)),
                 !.offset = st.offset + 12,
                 !.params = <<>>]
    ELSE IF st.offset > field_limit
         THEN [st EXCEPT !.pc = "error", !.error = "DecodeError"]
         ELSE [st EXCEPT !.pc = "done"]

\* One turn of the param loop of decode_fields: an embedded footer is skipped
\* with a warning, or a param is decoded and the param overflow is checked,
\* or the loop is left and the field is stored.
ParamIteration(b, st) ==
    IF st.offset < st.param_limit
    THEN IF Slice(b, st.offset, st.offset + 8) = PACKET_FOOTER
         THEN [st EXCEPT !.warnings = Append(@, st.offset),
                         !.offset = skip_footer(st.offset)]
         ELSE IF st.offset + 8 > Len(b)
         THEN [st EXCEPT !.pc = "error", !.error = "struct.error"]
         ELSE LET param_name == Slice(b, st.offset, st.offset + 4)
                  param_size == from_bytes(Slice(b, st.offset + 4, st.offset + 7)) * 4
                  param_type_id == b[st.offset + 8]
                  param_value_encoded == Slice(b, st.offset + 8, st.offset + param_size)
                  value == decode_value(param_type_id, param_value_encoded)
              IN  IF value.type = "error"
                  THEN [st EXCEPT !.pc = "error", !.error = "DecodeError"]
                  ELSE IF st.offset + param_size > st.param_limit
                  THEN [st EXCEPT !.pc = "error", !.error = "DecodeError",
                                  !.offset = st.offset + param_size]
                  ELSE [st EXCEPT
                          !.params = OrderedDictSet(@, decode_identifier(param_name), value),
                          !.offset = st.offset + param_size]
    ELSE [st EXCEPT
            !.pc = "field",
            !.fields = Append(@, [name |-> decode_identifier(st.field_name),
                                  id |-> st.field_id, params |-> st.params])]

\* One turn of whichever loop decode_fields is in.
DecodeIteration(b, field_limit, st) ==
    IF st.pc = "field" THEN FieldIteration(b, field_limit, st)
    ELSE ParamIteration(b, st)

\* decode_fields run for at most n turns of its loops.
RECURSIVE DecodeRun(_, _, _, _)
DecodeRun(b, field_limit, st, n) ==
    IF st.pc \in {"done", "error"} \/ n = 0 THEN st
    ELSE DecodeRun(b, field_limit, DecodeIteration(b, field_limit, st), n - 1)

\* decode_fields: on a buffer of n bytes whose sizes are not zero each turn
\* either moves the offset on or ends a field, so 2 * n + 2 turns are enough.
decode_fields(b, offset, field_limit) ==
    DecodeRun(b, field_limit, DecodeStart(offset), 2 * Len(b) + 2)

\* decode_packet: decode_packet_cps on the first 32 bytes, then
\* decode_packet_body on the rest.
decode_packet(b) ==
    LET header_buf == Slice(b, 0, 32)
        body_buf == Slice(b, 32, Len(b))
        size == from_bytes(Slice(header_buf, 8, 12)) * 4
        size_remaining == size - 32
        res == decode_fields(body_buf, 0, size_remaining - 8)
    IN  IF Len(header_buf) # 32 THEN [kind |-> "error", error |-> "struct.error"]
        ELSE IF Slice(header_buf, 0, 4) # <<221, 204, 187, 170>>
        THEN [kind |-> "error", error |-> "DecodeError"]
        ELSE IF Len(body_buf) > size_remaining
        THEN [kind |-> "error", error |-> "DecodeError"]
        ELSE IF res.pc = "error" THEN [kind |-> "error", error |-> res.error]
        ELSE IF res.pc # "done" THEN [kind |-> "running"]
        ELSE IF size_remaining - 8 < 0 \/ size_remaining > Len(body_buf)
        THEN [kind |-> "error", error |-> "struct.error"]
        ELSE IF Slice(body_buf, size_remaining - 4, size_remaining) # <<170, 187, 204, 221>>
        THEN [kind |-> "error", error |-> "DecodeError"]
        ELSE [kind |-> "ok",
              type |-> decode_identifier(Slice(header_buf, 4, 8)),
              id |-> from_bytes(Slice(header_buf, 12, 16)),
              timestamp |-> <<from_bytes(Slice(header_buf, 20, 24)),
                              from_bytes(Slice(header_buf, 24, 28))>>,
              info |-> Slice(header_buf, 28, 32),
              fields |-> res.fields,
              warnings |-> res.warnings]

\* The names of the fields and of the params given to encode_packet.
FieldNames == {id_ECHO}
ParamNames == {id_VALU, id_CIW}

\* The ordered mappings of n params with names of the set names.
RECURSIVE ParamListsOf(_, _)
ParamListsOf(n, names) ==
    IF n = 0 THEN {<<>>}
    ELSE UNION {{<<[name |-> nm, value |-> v]>> \o rest :
                    v \in Values, rest \in ParamListsOf(n - 1, names \ {nm})} :
                nm \in names}

\* The lists of at most nf fields with at most np params in all; the id of a
\* field is its place after the first first_id - 1.
RECURSIVE FieldListsOf(_, _, _)
FieldListsOf(nf, np, first_id) ==
    IF nf = 0 THEN {<<>>}
    ELSE {<<>>} \cup
         UNION {UNION {{<<[name |-> nm, id |-> first_id, params |-> ps]>> \o rest :
                          nm \in FieldNames,
                          rest \in FieldListsOf(nf - 1, np - k, first_id + 1)} :
                       ps \in ParamListsOf(k, ParamNames)} :
                k \in 0..np}

\* The byte at which field f of the packet in buf starts.
FieldStart(f) ==
    32 + Len(encode_fields(SubSeq(fields_in, 1, f - 1)))
       + 8 * Cardinality({i \in 1..Len(embedded) : embedded[i].field < f})

\* The byte of buf at which param j + 1 of field f starts, or at which the
\* field ends when it has j params: before the footers embedded there.
ParamBoundary(f, j) ==
    32 + Len(encode_fields(SubSeq(fields_in, 1, f - 1))) + 12
       + Len(encode_params(SubSeq(fields_in[f].params, 1, j)))
       + 8 * Cardinality({i \in 1..Len(embedded) :
                            \/ embedded[i].field < f
                            \/ embedded[i].field = f /\ embedded[i].param < j})

\* buf[offset:offset+len(bs)] = bs
Patch(b, offset, bs) ==
    [i \in 1..Len(b) |->
        IF i > offset /\ i <= offset + Len(bs) THEN bs[i - offset] ELSE b[i]]

\* encode_packet is applied to the fields.
Encode ==
    /\ buf = <<>>
    /\ buf' = encode_packet(id_TEST, 1, <<0, 0>>, info_0000, fields_in)
    /\ UNCHANGED <<fields_in, embedded, decoded, limit, loop, clientVars, serverVars>>

\* The garbled packet of an Axis node: the eight bytes of a packet footer
\* stand before param j + 1 of field f (after the last one when the field
\* has j params), inside the sizes the field and the packet declare.  The
\* footers of one packet are embedded from its first byte on.
Embed(f, j) ==
    /\ buf # <<>>
    /\ decoded.kind = "none"
    /\ Len(embedded) < MaxEmbedded
    /\ \A i \in 1..Len(embedded) :
          \/ embedded[i].field < f
          \/ embedded[i].field = f /\ embedded[i].param <= j
    /\ f \in 1..Len(fields_in)
    /\ j \in 0..Len(fields_in[f].params)
    /\ LET p == ParamBoundary(f, j)
           h == FieldStart(f)
           inserted == SubSeq(buf, 1, p) \o PACKET_FOOTER \o SubSeq(buf, p + 1, Len(buf))
           field_words == from_bytes(Slice(buf, h + 4, h + 7))
           total_words == from_bytes(Slice(buf, 8, 12))
       IN  /\ buf' = Patch(Patch(inserted, h + 4, to_bytes(field_words + 2, 3)),
                           8, to_bytes(total_words + 2, 4))
           /\ embedded' =
                Append([i \in 1..Len(embedded) |->
                           IF embedded[i].offset >= p
                           THEN [embedded[i] EXCEPT !.offset = @ + 8]
                           ELSE embedded[i]],
                       [field |-> f, param |-> j, offset |-> p])
    /\ UNCHANGED <<fields_in, decoded, limit, loop, clientVars, serverVars>>

\* decode_packet is applied to the bytes.
Decode ==
    /\ buf # <<>>
    /\ decoded.kind = "none"
    /\ decoded' = decode_packet(buf)
    /\ UNCHANGED <<fields_in, buf, embedded, limit, loop, clientVars, serverVars>>

\* The codec is given a list of fields; the client and the server stand by.
CodecInit ==
    /\ fields_in \in FieldListsOf(MaxFields, MaxParams, 1)
    /\ buf = <<>>
    /\ embedded = <<>>
    /\ decoded = [kind |-> "none"]
    /\ limit = 0
    /\ loop = NoLoop
    /\ cfg = [auto_auth |-> TRUE, auto_erro |-> TRUE, auto_warn |-> TRUE,
              auto_ackn |-> TRUE]
    /\ peer = "free"
    /\ ClientCreated
    /\ _auto_auth = TRUE
    /\ ServerStarted

CodecNext ==
    \/ Encode
    \/ \E f \in 1..MaxFields, j \in 0..MaxParams : Embed(f, j)
    \/ Decode

CodecSpec == CodecInit /\ [][CodecNext]_vars

\* What decode_packet gives for the fields: each identifier as four bytes
\* without the NULs that pad it, each value by its variant and its value.
Normalised(fields) ==
    [f \in 1..Len(fields) |->
        [name |-> decode_identifier(Pack4s(fields[f].name)),
         id |-> fields[f].id,
         params |-> [i \in 1..Len(fields[f].params) |->
                        [name |-> decode_identifier(Pack4s(fields[f].params[i].name)),
                         value |-> fields[f].params[i].value]]]]

\* The size a param declares at the offset of b, in bytes.
DeclaredSize(b, offset) == from_bytes(Slice(b, offset + 4, offset + 7)) * 4

\* The params stand one after the other from the offset of b, each declaring
\* 8 + payload + pad bytes with pad = (-(8 + payload)) mod 4 and each pad
\* byte 0: the offset after the last one, or -1.
RECURSIVE ParamsEnd(_, _, _)
ParamsEnd(b, offset, params) ==
    IF params = <<>> THEN offset
    ELSE LET payload == Len(encode_value(Head(params).value)[2])
             pad == (-(8 + payload)) % 4
         IN  IF /\ DeclaredSize(b, offset) = 8 + payload + pad
                /\ offset + 8 + payload + pad <= Len(b)
                /\ \A i \in 1..pad : b[offset + 8 + payload + i] = 0
             THEN ParamsEnd(b, offset + 8 + payload + pad, Tail(params))
             ELSE -1

\* The fields stand one after the other from the offset of b, each declaring
\* the 12 bytes of its header and the sizes of its params: the offset after
\* the last one, or -1.
RECURSIVE FieldsEnd(_, _, _)
FieldsEnd(b, offset, fields) ==
    IF fields = <<>> THEN offset
    ELSE LET end == ParamsEnd(b, offset + 12, Head(fields).params)
         IN  IF end # -1 /\ DeclaredSize(b, offset) = end - offset
             THEN FieldsEnd(b, end, Tail(fields))
             ELSE -1

\* buf is what encode_packet returned.
Encoded == buf # <<>> /\ embedded = <<>>

\* C19: in every packet encode_packet returns, the total size in words times
\* 4 is the number of bytes, each field declares its 12-byte header plus the
\* sizes of its params, each param declares 8 + payload + pad bytes with
\* pad = (-(8 + payload)) mod 4 and zero pad bytes, and the packet of no
\* fields is 40 bytes and 10 words.
C19_SizeSelfConsistency ==
    Encoded =>
        /\ from_bytes(Slice(buf, 8, 12)) * 4 = Len(buf)
        /\ FieldsEnd(buf, 32, fields_in) = Len(buf) - 8
        /\ fields_in = <<>> => Len(buf) = 40 /\ from_bytes(Slice(buf, 8, 12)) = 10

\* A packet of two fields was encoded, one with the string "abc", padded by
\* one byte, and one with the string "a", padded by three: 88 bytes.
C19_Witness ==
    /\ Encoded
    /\ Len(fields_in) = 2
    /\ \E f, g \in 1..2 :
          /\ fields_in[f].params = <<[name |-> id_CIW,
                                      value |-> [type |-> "string", v |-> <<97, 98, 99>>]]>>
          /\ fields_in[g].params = <<[name |-> id_VALU,
                                      value |-> [type |-> "string", v |-> <<97>>]]>>
    /\ Len(buf) = 88

\* The offsets in the body at which the decoder warned of an embedded footer.
WarnedAt == {decoded.warnings[i] : i \in 1..Len(decoded.warnings)}

\* The offsets in the body at which a footer was embedded.
EmbeddedAt == {embedded[i].offset - 32 : i \in 1..Len(embedded)}

\* C20: a packet with the eight bytes of a footer at param boundaries inside
\* the declared region of a field decodes; the decoder warns exactly once for
\* each occurrence, at its offset, skips its eight bytes, and gives the
\* fields with the params before and after it as they were sent, in order.
C20_CorruptionTolerance ==
    (embedded # <<>> /\ decoded.kind # "none") =>
        /\ decoded.kind = "ok"
        /\ Len(decoded.warnings) = Len(embedded)
        /\ WarnedAt = EmbeddedAt
        /\ decoded.fields = Normalised(fields_in)

\* A packet was decoded with a footer embedded between the two params of its
\* first field.
C20_Witness ==
    /\ decoded.kind = "ok"
    /\ Len(embedded) >= 1
    /\ embedded[1].field = 1
    /\ embedded[1].param = 1
    /\ Len(fields_in[1].params) = 2
    /\ Len(decoded.fields[1].params) = 2
    /\ Len(decoded.warnings) >= 1

\* ---------------------------------------------------------------------------
\* The waiters of the client, again.
\* ---------------------------------------------------------------------------

\* The reader has read a packet that task t, inside recv_field all the while,
\* was not given: its waiter holds an earlier packet and t has not run since.
Missed(t) ==
    /\ pc[t] = "waiting"
    /\ fut[Waiter(t)].st = "result"
    /\ ghost.reads > fut[Waiter(t)].seq

\* C21: a caller inside recv_field is given every packet the reader reads;
\* when the reader reads a packet that holds nothing for the caller and then
\* its reply before the caller runs, the caller is given the reply too.
C21_NoMissedPacket ==
    \A t \in Callers :
        /\ ~Missed(t)
        /\ ~(/\ Missed(t)
             /\ Examine(cfg, fut[Waiter(t)].val, call[t]).kind = "nomatch"
             /\ Examine(cfg, ghost.last, call[t]).kind = "return")

\* A step in which the reader has read a packet.
ReadsPacket == ghost'.reads = ghost.reads + 1

\* C22: when the reader reads a packet, every waiter of the set that is not
\* done gets that packet as its result and every waiter that is done is left
\* as it is; and whatever the step, a waiter that is done stays as it is until
\* its caller drops it: no waiter gets a result or an exception twice.
C22_SingleShotDelivery ==
    [][/\ ReadsPacket =>
            \A w \in waiters :
                IF Done(fut[w]) THEN fut'[w] = fut[w]
                ELSE fut'[w].st = "result" /\ fut'[w].val = ghost'.last
       /\ \A w \in WaiterIds :
            (Done(fut[w]) /\ Done(fut'[w])) => fut'[w] = fut[w]]_vars

\* The reader has read two packets, each the only one of its read: the first
\* was set on the waiter of a task that has not run since, and the second
\* read left that waiter as it was.
C22_Witness ==
    \E t \in Callers :
        /\ pc[t] = "waiting"
        /\ Waiter(t) \in waiters
        /\ fut[Waiter(t)].st = "result"
        /\ fut[Waiter(t)].seq = 1
        /\ ghost.reads = 2
        /\ fut[Waiter(t)].val # ghost.last

\* C23: every waiter of the set is the one waiter of a task that is inside
\* recv_field, so there is at most one per such task and none for any
\* other; a task whose call has returned, failed or been cancelled has no
\* waiter in the set.
C23_WaiterBookkeeping ==
    /\ \A w \in waiters : pc[w[1]] = "waiting" /\ w = Waiter(w[1])
    /\ \A t \in Tasks :
          pc[t] # "waiting" => \A w \in waiters : w[1] # t

\* One call has returned and its waiter is gone; another task, given the
\* same packet, has gone round the loop of recv_field and its new waiter is
\* the only one of the set.
C23_Witness ==
    \E c, d \in Callers :
        /\ c # d
        /\ Returned(c)
        /\ pc[d] = "waiting"
        /\ hist[d].seenSeq > 0
        /\ waiters = {Waiter(d)}
        /\ fut[Waiter(d)].st = "pending"

\* ---------------------------------------------------------------------------
\* decode_fields on any body, one turn of its loops at a time.
\* ---------------------------------------------------------------------------

\* The most words a param of a body declares.
MaxWords == 3
\* The most params in the first field of a body.
MaxRawParams == 2

\* The name of the i-th param of a body.
ParamNameAt(i) == IF i = 1 THEN id_VALU ELSE id_CIW

\* The bytes of a param that declares any number of words and any tag: the
\* header and the payload that the declared size leaves room for.
RawParam(i, words, type_id) ==
    Pack4s(ParamNameAt(i)) \o to_bytes(words, 3) \o <<type_id>>
        \o [k \in 1..(IF words > 2 THEN words * 4 - 8 ELSE 0) |->
               IF k = 1 THEN 42 ELSE 0]

RECURSIVE RawParams(_, _)
RawParams(ps, i) ==
    IF i > Len(ps) THEN <<>>
    ELSE RawParam(i, ps[i].words, ps[i].type_id) \o RawParams(ps, i + 1)

\* The declared sizes and tags of the params of a body.
RawParamLists ==
    UNION {[1..n -> [words : 0..MaxWords, type_id : {TYPE_STRING, TYPE_U32}]] :
           n \in 0..MaxRawParams}

\* The bytes of a field that declares any number of words.
RawField(words, field_id, ps) ==
    Pack4s(id_ECHO) \o to_bytes(words, 3) \o <<0>> \o to_bytes(field_id, 4)
        \o RawParams(ps, 1)

\* The bodies: a field that declares its true size, a word less or nothing,
\* with params that declare any size, and after it nothing or a field with
\* no params.
Bodies ==
    UNION {{RawField(words, 1, ps) \o tail :
               words \in {0, (12 + Len(RawParams(ps, 1))) \div 4,
                          (12 + Len(RawParams(ps, 1))) \div 4 - 1},
               tail \in {<<>>, RawField(3, 2, <<>>)}} :
           ps \in RawParamLists}

\* decode_fields(buf, 0, field_limit) is called on a body.
DecodeFields ==
    /\ loop.pc = "idle"
    /\ buf # <<>>
    /\ loop' = DecodeStart(0)
    /\ UNCHANGED <<fields_in, buf, embedded, decoded, limit, clientVars, serverVars>>

\* One turn of the field loop, or its end.
FieldTurn ==
    /\ loop.pc = "field"
    /\ loop' = FieldIteration(buf, limit, loop)
    /\ UNCHANGED <<fields_in, buf, embedded, decoded, limit, clientVars, serverVars>>

\* One turn of the param loop, or its end.
ParamTurn ==
    /\ loop.pc = "param"
    /\ loop' = ParamIteration(buf, loop)
    /\ UNCHANGED <<fields_in, buf, embedded, decoded, limit, clientVars, serverVars>>

\* decode_fields is given a body and a field limit: all of the body or all
\* but its last word.
DecodeInit ==
    /\ buf \in Bodies
    /\ limit \in {Len(buf), Len(buf) - 4}
    /\ loop = NoLoop
    /\ fields_in = <<>>
    /\ embedded = <<>>
    /\ decoded = [kind |-> "none"]
    /\ cfg = [auto_auth |-> TRUE, auto_erro |-> TRUE, auto_warn |-> TRUE,
              auto_ackn |-> TRUE]
    /\ peer = "free"
    /\ ClientCreated
    /\ _auto_auth = TRUE
    /\ ServerStarted

DecodeNext == DecodeFields \/ FieldTurn \/ ParamTurn

DecodeSpec == DecodeInit /\ [][DecodeNext]_vars

\* decode_fields runs on: a loop that can take a turn takes it.
DecodeFairness ==
    WF_vars(DecodeFields) /\ WF_vars(FieldTurn) /\ WF_vars(ParamTurn)

FairDecodeSpec == DecodeSpec /\ DecodeFairness

\* A turn of the field loop or of the param loop is about to start.
IterationDue ==
    \/ loop.pc = "field" /\ loop.offset < limit
    \/ loop.pc = "param" /\ loop.offset < loop.param_limit

\* The turn that is about to start moves the offset on, or raises.
Advances ==
    IterationDue =>
        LET next == DecodeIteration(buf, limit, loop)
        IN  next.pc = "error" \/ next.offset > loop.offset

\* decode_fields has returned or raised.
Terminated == loop.pc \in {"done", "error"}

\* C24: on every body and field limit every turn of the field loop and of
\* the param loop of decode_fields moves the offset on (or raises), also for
\* a param or a field that declares 0 words, and decode_fields ends, with
\* the fields or with an error.
C24_DecodeTermination == []Advances /\ <>Terminated

====
